---------------------------- MODULE Spec2Model ----------------------------
(***************************************************************************)
(* k8s-lite-go: the in-memory store, the API server's handlers, the        *)
(* scheduler loop and the kubelet (node agent) loop, as one state machine. *)
(*                                                                         *)
(* The store is the Go maps of InMemoryStore (a function whose DOMAIN is   *)
(* the key set of the map); a Pod's key is the string namespace/name.      *)
(* A request that makes one call of the store is one step.  The PUT        *)
(* handlers make two calls, the read of the key (GetPod, GetNode) and the  *)
(* write (UpdatePod, UpdateNode), and give the lock back in between: a PUT *)
(* is two steps, with the request held in putReq between them, and the     *)
(* steps of the other actors fall between the two.  A loop (scheduler,     *)
(* kubelet) is a process that lists, keeps the listing as a local snapshot *)
(* and then issues one request per listed Pod, waiting for each answer.    *)
(*                                                                         *)
(* The loops address a Pod or a Node by a URL built from its name; the     *)
(* router takes the URL apart at each "/", so a name with a "/" in it is   *)
(* stored by a POST and reached by no PUT.                                 *)
(*                                                                         *)
(* SpecLock takes every call of the store as two steps, the lock taken     *)
(* and the method run with its deferred unlock, with the lock held in mu.  *)
(***************************************************************************)
EXTENDS Naturals, Sequences, FiniteSets

(***************************************************************************)
(* Bounds of the model                                                     *)
(***************************************************************************)
\* number of requests the external client issues in one behaviour
MaxClientOps == 2
\* the same where no kubelet runs
MaxStoreOps == 3
\* the scheduler stops assigning when its cursor reaches this value
MaxCursor == 4
\* number of times a kubelet process is stopped and started again in one
\* behaviour
MaxRestarts == 2

(***************************************************************************)
(* Values of the program                                                   *)
(***************************************************************************)
\* loops that work on another namespace
DefaultNamespaceOther == "other"

DefaultNamespace == "default"

Namespaces == {"default", "other"}
\* the names of Pods: any non-empty string of a POST's body, a "/" included
PodNames == {"p1", "p2", "a/b"}
\* the namespace and the name of the Pods a client addresses by a URL: two
\* Pods of the loops' namespace and a Pod of the same name in another
\* namespace
PodKeys == {<<"default", "p1">>, <<"default", "p2">>, <<"other", "p1">>}
\* the namespace of the URL and the name of the body of a client's POST
CreatePodKeys == PodKeys \cup {<<"default", "a/b">>}
\* the names of the Nodes a client addresses by a URL
NodeNames == {"n1", "n2"}
\* the Nodes for which a kubelet process exists: the name is the -name of
\* its command line, any string
Kubelets == NodeNames \cup {"a/b"}
\* the kubelet that is started when an external client is active too (the
\* other Node is then registered by kubectl-lite only)
ClientKubelets == {"n1"}
Images == {"nginx", "busybox"}

PodPending == "Pending"
PodScheduled == "Scheduled"
PodRunning == "Running"
PodDeleted == "Deleted"
PodSucceeded == "Succeeded"
PodFailed == "Failed"
PodDeleting == "Deleting"
PodTerminating == "Terminating"
PodPhase == {PodPending, PodScheduled, PodRunning, PodDeleted, PodSucceeded,
             PodFailed, PodDeleting, PodTerminating}

NodeReady == "Ready"
NodeNotReady == "NotReady"
\* the status strings a request body may carry ("" is an omitted status)
NodeStatus == {NodeReady, NodeNotReady, ""}

\* DeletionTimestamp *time.Time: "nil" is the nil pointer, "t" a time
nil == "nil"
Times == {nil, "t"}

\* api.Pod (HostIP and PodIP are opaque strings no code reads or writes;
\* they are carried along exactly as Image is)
Pod == [name : PodNames, namespace : Namespaces, image : Images,
        nodeName : NodeNames \cup {""}, phase : PodPhase,
        deletionTimestamp : Times]

\* api.Node
Node == [name : Kubelets, address : {"addr-n1", "addr-n2", "addr-a/b", "addr-x"},
         status : NodeStatus]

VARIABLES
    pods,           \* InMemoryStore.pods: key -> Pod
    nodes,          \* InMemoryStore.nodes: name -> Node
    nextNodeIndex,  \* the scheduler's round-robin cursor
    schedPc,        \* where the scheduler is in schedulePods
    pendingPods,    \* schedulePods: the Pods of its listing not yet handled
    readyNodes,     \* schedulePods: the Ready Nodes of its listing
    kPc,            \* per kubelet: where the process is
    kPods,          \* per kubelet: the Pods of its listing not yet handled
    clientOps,      \* number of requests the client may still issue
    restarts,       \* number of restarts of a kubelet process so far
    mu,             \* InMemoryStore.mu: the writer that holds the lock and
                    \* the readers that hold it
    putReq,         \* the PUTs between the handler's read of the key and
                    \* its write: the sender, Pod or Node, and the body;
                    \* and the requests of a kubelet that gave up on them,
                    \* on their way to the handler
    resp            \* the step just taken: actor, operation, the namespace
                    \* and name (or the Node name) addressed, HTTP code

vars == <<pods, nodes, nextNodeIndex, schedPc, pendingPods, readyNodes,
          kPc, kPods, clientOps, restarts, mu, putReq, resp>>

(***************************************************************************)
(* Helpers                                                                 *)
(***************************************************************************)
\* the orders in which a Go map iteration may visit the keys S
RECURSIVE Orderings(_)
Orderings(S) ==
    IF S = {} THEN {<<>>}
    ELSE UNION {{<<x>> \o s : s \in Orderings(S \ {x})} : x \in S}

\* m[key] = v of a Go map
MapPut(m, key, v) == [k \in DOMAIN m \cup {key} |-> IF k = key THEN v ELSE m[k]]
\* delete(m, key)
MapDelete(m, key) == [k \in DOMAIN m \ {key} |-> m[k]]
\* make(map[...]...)
EmptyMap == [k \in {} |-> k]

\* fmt.Sprintf("%s/%s", namespace, name)
podKey(namespace, name) == namespace \o "/" \o name

(***************************************************************************)
(* The URL of a request and the route it takes                             *)
(***************************************************************************)
\* Client.buildURL with an empty base path: "/" and the segment, for each
\* segment in turn
RECURSIVE buildURL(_)
buildURL(pathSegments) ==
    IF pathSegments = <<>> THEN ""
    ELSE buildURL(SubSeq(pathSegments, 1, Len(pathSegments) - 1))
             \o "/" \o pathSegments[Len(pathSegments)]

\* the strings between the "/" of path from position i on, start being the
\* position after the last "/" seen
RECURSIVE SplitFrom(_, _, _)
SplitFrom(path, i, start) ==
    IF i > Len(path) THEN <<SubSeq(path, start, Len(path))>>
    ELSE IF SubSeq(path, i, i) = "/"
    THEN <<SubSeq(path, start, i - 1)>> \o SplitFrom(path, i + 1, i + 1)
    ELSE SplitFrom(path, i + 1, start)

\* the segments of a path, as the router matches them
Split(path) == SplitFrom(path, 1, 1)

\* a path that ends with "/" is redirected to the path without it when that
\* one has a route (gin's RedirectTrailingSlash, which the client follows)
Redirected(segments) ==
    IF Len(segments) > 1 /\ segments[Len(segments)] = ""
    THEN SubSeq(segments, 1, Len(segments) - 1)
    ELSE segments

\* /api/v1/namespaces/:namespace/pods/:podname: the parameters, or no route
RoutePod(path) ==
    LET s == Redirected(Split(path)) IN
    IF /\ Len(s) = 7
       /\ s[1] = "" /\ s[2] = "api" /\ s[3] = "v1" /\ s[4] = "namespaces"
       /\ s[5] # "" /\ s[6] = "pods" /\ s[7] # ""
    THEN [ok |-> TRUE, namespace |-> s[5], podname |-> s[7]]
    ELSE [ok |-> FALSE]

\* /api/v1/nodes/:nodename: the parameter, or no route
RouteNode(path) ==
    LET s == Redirected(Split(path)) IN
    IF /\ Len(s) = 5
       /\ s[1] = "" /\ s[2] = "api" /\ s[3] = "v1" /\ s[4] = "nodes"
       /\ s[5] # ""
    THEN [ok |-> TRUE, nodename |-> s[5]]
    ELSE [ok |-> FALSE]

(***************************************************************************)
(* InMemoryStore                                                           *)
(***************************************************************************)
\* a create that overwrites a stored Pod
CreatePodUpsert(ps, pod) ==
    [pods |-> MapPut(ps, podKey(pod.namespace, pod.name), pod), err |-> FALSE]

CreatePod(ps, pod) ==
    LET key == podKey(pod.namespace, pod.name) IN
    IF key \in DOMAIN ps THEN [pods |-> ps, err |-> TRUE]
    ELSE [pods |-> MapPut(ps, key, pod), err |-> FALSE]

GetPod(ps, namespace, name) ==
    LET key == podKey(namespace, name) IN
    IF key \notin DOMAIN ps THEN [err |-> TRUE]
    ELSE [err |-> FALSE, pod |-> ps[key]]

\* an update that keeps the image of the stored Pod
UpdatePodKeepImage(ps, pod) ==
    LET key == podKey(pod.namespace, pod.name) IN
    IF key \notin DOMAIN ps THEN [pods |-> ps, err |-> TRUE]
    ELSE [pods |-> MapPut(ps, key, [pod EXCEPT !.image = ps[key].image]),
          err |-> FALSE]

UpdatePod(ps, pod) ==
    LET key == podKey(pod.namespace, pod.name) IN
    IF key \notin DOMAIN ps THEN [pods |-> ps, err |-> TRUE]
    ELSE [pods |-> MapPut(ps, key, pod), err |-> FALSE]

\* a delete that marks the Pod as Deleted and keeps the record
DeletePodSoft(ps, namespace, name) ==
    LET key == podKey(namespace, name) IN
    IF key \notin DOMAIN ps THEN [pods |-> ps, err |-> TRUE]
    ELSE [pods |-> MapPut(ps, key, [ps[key] EXCEPT !.phase = PodDeleted]),
          err |-> FALSE]

\* a delete that removes the Pods of that name in every namespace
DeletePodByName(ps, namespace, name) ==
    LET key == podKey(namespace, name) IN
    IF key \notin DOMAIN ps THEN [pods |-> ps, err |-> TRUE]
    ELSE [pods |-> [k \in {j \in DOMAIN ps : ps[j].name # name} |-> ps[k]],
          err |-> FALSE]

\* a delete that empties the map
DeletePodAll(ps, namespace, name) ==
    LET key == podKey(namespace, name) IN
    IF key \notin DOMAIN ps THEN [pods |-> ps, err |-> TRUE]
    ELSE [pods |-> EmptyMap, err |-> FALSE]

DeletePod(ps, namespace, name) ==
    LET key == podKey(namespace, name) IN
    IF key \notin DOMAIN ps THEN [pods |-> ps, err |-> TRUE]
    ELSE [pods |-> MapDelete(ps, key), err |-> FALSE]

\* the keys of the Pods of a namespace; the listing is one of their orders
ListPods(ps, namespace) == {k \in DOMAIN ps : ps[k].namespace = namespace}

CreateNode(ns, node) ==
    IF node.name \in DOMAIN ns THEN [nodes |-> ns, err |-> TRUE]
    ELSE [nodes |-> MapPut(ns, node.name, node), err |-> FALSE]

GetNode(ns, name) ==
    IF name \notin DOMAIN ns THEN [err |-> TRUE]
    ELSE [err |-> FALSE, node |-> ns[name]]

UpdateNode(ns, node) ==
    IF node.name \notin DOMAIN ns THEN [nodes |-> ns, err |-> TRUE]
    ELSE [nodes |-> MapPut(ns, node.name, node), err |-> FALSE]

\* no route of the server calls it
DeleteNode(ns, name) ==
    IF name \notin DOMAIN ns THEN [nodes |-> ns, err |-> TRUE]
    ELSE [nodes |-> MapDelete(ns, name), err |-> FALSE]

ListNodes(ns) == DOMAIN ns

(***************************************************************************)
(* API server handlers: the new store and the HTTP status code             *)
(***************************************************************************)
\* a create handler that stores the phase and the nodeName of the body
createPodHandlerGinAsSent(ps, namespace, body) ==
    IF body.name = "" THEN [pods |-> ps, code |-> 400]
    ELSE LET pod == [body EXCEPT !.namespace = IF namespace = ""
                                                THEN DefaultNamespace
                                                ELSE namespace]
             r == CreatePod(ps, pod)
         IN IF r.err THEN [pods |-> ps, code |-> 500]
            ELSE [pods |-> r.pods, code |-> 201, pod |-> pod]

createPodHandlerGin(ps, namespace, body) ==
    IF body.name = "" THEN [pods |-> ps, code |-> 400]
    ELSE LET pod == [body EXCEPT !.namespace = IF namespace = ""
                                                THEN DefaultNamespace
                                                ELSE namespace,
                                 !.phase = PodPending,
                                 !.nodeName = ""]
             r == CreatePod(ps, pod)
         IN IF r.err THEN [pods |-> ps, code |-> 500]
            ELSE [pods |-> r.pods, code |-> 201, pod |-> pod]

getPodHandlerGin(ps, namespace, podname) ==
    LET r == GetPod(ps, namespace, podname) IN
    IF r.err THEN [code |-> 404] ELSE [code |-> 200, pod |-> r.pod]

deletePodHandlerGin(ps, namespace, podname) ==
    LET r == DeletePod(ps, namespace, podname) IN
    IF r.err THEN [pods |-> ps, code |-> 500]
    ELSE [pods |-> r.pods, code |-> 200]

\* an update handler that trusts the name and the namespace of the body
updatePodHandlerGinLookupNoIdentity(ps, namespace, podname, body) ==
    IF GetPod(ps, namespace, podname).err THEN 404
    ELSE 0

\* updatePodHandlerGin up to its GetPod: the status it answers there, 0 when
\* it goes on to UpdatePod
updatePodHandlerGinLookup(ps, namespace, podname, body) ==
    IF body.name # podname THEN 400
    ELSE IF body.namespace # namespace THEN 400
    ELSE IF GetPod(ps, namespace, podname).err THEN 404
    ELSE 0

\* updatePodHandlerGin from its UpdatePod on
updatePodHandlerGinWrite(ps, body) ==
    LET r == UpdatePod(ps, body) IN
    IF r.err THEN [pods |-> ps, code |-> 500]
    ELSE [pods |-> r.pods, code |-> 200]

createNodeHandlerGin(ns, body) ==
    IF body.name = "" THEN [nodes |-> ns, code |-> 400]
    ELSE LET node == IF body.status = "" THEN [body EXCEPT !.status = NodeReady]
                     ELSE body
             r == CreateNode(ns, node)
         IN IF r.err THEN [nodes |-> ns, code |-> 500]
            ELSE [nodes |-> r.nodes, code |-> 201]

\* updateNodeHandlerGin up to its GetNode: the status it answers there, 0
\* when it goes on to UpdateNode
updateNodeHandlerGinLookup(ns, nodename, body) ==
    IF body.name # "" /\ body.name # nodename THEN 400
    ELSE IF GetNode(ns, nodename).err THEN 404
    ELSE 0

\* an update handler that takes a Node out of the store when it is set to
\* NotReady
updateNodeHandlerGinWriteDecommission(ns, updatedNode) ==
    IF updatedNode.status = NodeNotReady
    THEN LET r == DeleteNode(ns, updatedNode.name) IN
         IF r.err THEN [nodes |-> ns, code |-> 500]
         ELSE [nodes |-> r.nodes, code |-> 200]
    ELSE LET r == UpdateNode(ns, updatedNode) IN
         IF r.err THEN [nodes |-> ns, code |-> 500]
         ELSE [nodes |-> r.nodes, code |-> 200]

\* updateNodeHandlerGin from its UpdateNode on, updatedNode being the body
\* with the name of the path
updateNodeHandlerGinWrite(ns, updatedNode) ==
    LET r == UpdateNode(ns, updatedNode) IN
    IF r.err THEN [nodes |-> ns, code |-> 500]
    ELSE [nodes |-> r.nodes, code |-> 200]

(***************************************************************************)
(* api.Client: the requests of the loops and the client-side filters of    *)
(* the listings                                                            *)
(***************************************************************************)
\* the URL of Client.UpdatePod(pod)
ClientUpdatePodURL(pod) ==
    buildURL(<<"api", "v1", "namespaces", pod.namespace, "pods", pod.name>>)

\* the URL of Client.UpdateNode(node)
ClientUpdateNodeURL(node) == buildURL(<<"api", "v1", "nodes", node.name>>)

\* the router's answer to the URL of Client.UpdatePod and of
\* Client.UpdateNode, for every namespace and name of a record
UpdatePodRoutes ==
    [namespace \in Namespaces \cup {""}, name \in PodNames \cup {""} |->
        RoutePod(ClientUpdatePodURL([namespace |-> namespace, name |-> name]))]
UpdateNodeRoutes ==
    [name \in Kubelets \cup {""} |-> RouteNode(ClientUpdateNodeURL([name |-> name]))]

\* the route of the PUT of Client.UpdatePod(pod), of Client.UpdateNode(node)
ClientUpdatePodRoute(pod) == UpdatePodRoutes[pod.namespace, pod.name]
ClientUpdateNodeRoute(node) == UpdateNodeRoutes[node.name]

\* Client.UpdatePod(pod) up to the handler's GetPod: the status answered
\* there, by the router when the URL has no route, 0 when the handler goes
\* on to UpdatePod
ClientUpdatePodLookup(ps, pod) ==
    LET route == ClientUpdatePodRoute(pod)
    IN IF ~route.ok THEN 404
       ELSE updatePodHandlerGinLookup(ps, route.namespace, route.podname, pod)

\* Client.UpdateNode(node) up to the handler's GetNode, in the same way
ClientUpdateNodeLookup(ns, node) ==
    LET route == ClientUpdateNodeRoute(node)
    IN IF ~route.ok THEN 404
       ELSE updateNodeHandlerGinLookup(ns, route.nodename, node)

\* Client.ListPods(namespace, phase): phase "" is no filter
ClientListPods(ps, namespace, phase) ==
    {k \in ListPods(ps, namespace) : phase = "" \/ ps[k].phase = phase}

\* a node listing that ignores the status asked for
ClientListNodesAll(ns, status) == ListNodes(ns)

\* Client.ListNodes(status): status "" is no filter
ClientListNodes(ns, status) ==
    {n \in ListNodes(ns) : status = "" \/ ns[n].status = status}

Response(actor, op, key, code) ==
    [actor |-> actor, op |-> op, key |-> key, code |-> code]

\* a PUT of a Pod, and of a Node, between the two store calls of its
\* handler.  Every request is served by a handler call of its own, so equal
\* requests can be in the server together: copy tells them apart.
PutRequest(actor, body) ==
    [actor |-> actor, kind |-> "pod", body |-> body, copy |-> 1]
NodePutRequest(actor, body) ==
    [actor |-> actor, kind |-> "node", body |-> body, copy |-> 1]

\* the requests in the server that are equal to q
Copies(q) == {p \in putReq : [p EXCEPT !.copy = 1] = [q EXCEPT !.copy = 1]}

\* q as one more request in the server
Another(q) == [q EXCEPT !.copy = Cardinality(Copies(q)) + 1]

\* of equal requests in the server the one whose handler goes on: they run
\* the same code on the same values, so it is taken to be the last
Latest(q) == q.copy = Cardinality(Copies(q))

(***************************************************************************)
(* Initial state: an empty store, no process started                       *)
(***************************************************************************)
\* NewInMemoryStore, and the processes before their start
InitStore ==
    /\ pods = EmptyMap
    /\ nodes = EmptyMap
    /\ nextNodeIndex = 0
    /\ schedPc = "sleep"
    /\ pendingPods = <<>>
    /\ readyNodes = <<>>
    /\ kPc = [n \in Kubelets |-> "off"]
    /\ kPods = [n \in Kubelets |-> <<>>]
    /\ restarts = 0
    /\ mu = [writer |-> "none", readers |-> {}]
    /\ putReq = {}
    /\ resp = Response("none", "none", <<>>, 0)

Init == InitStore /\ clientOps = MaxClientOps

\* the same with the longer run of requests of the client
InitWide == InitStore /\ clientOps = MaxStoreOps

(***************************************************************************)
(* The external client (kubectl-lite, or any HTTP client)                  *)
(***************************************************************************)
\* the bodies of a POST .../pods: the handler overwrites namespace, phase
\* and nodeName, so they take values that differ from what is stored
CreatePodBodies(name) ==
    [name : {name}, namespace : Namespaces, image : Images,
     nodeName : {"", "n1"}, phase : {PodPending, PodRunning},
     deletionTimestamp : Times]

\* the bodies of a PUT .../pods/name that pass the identity checks
UpdatePodBodies(key) ==
    [name : {key[2]}, namespace : {key[1]}, image : Images,
     nodeName : NodeNames \cup {""}, phase : PodPhase,
     deletionTimestamp : Times]

CreateNodeBodies ==
    [name : Kubelets, address : {"addr-x"}, status : NodeStatus]

UpdateNodeBodies(name) ==
    [name : {name, ""}, address : {"addr-x"}, status : NodeStatus]

\* the bodies of a POST that sends a Pod of one image with the fields the
\* handler overwrites left empty, with and without deletionTimestamp
PlainPodBodies(name) ==
    {b \in CreatePodBodies(name) :
        /\ b.namespace = DefaultNamespace /\ b.image = "nginx"
        /\ b.nodeName = "" /\ b.phase = PodPending}

\* the bodies of a PUT that passes the identity checks and sends a phase on
\* the way from Pending to Running
PlainPutBodies(key) ==
    {b \in UpdatePodBodies(key) :
        /\ b.phase \in {PodPending, PodScheduled, PodRunning}
        /\ b.nodeName \in {"", "n1"}}

\* POST .../namespaces/key[1]/pods with one of Bodies[key[2]], a body named
\* key[2]
ClientCreatePodOf(Bodies) ==
    /\ clientOps > 0
    /\ \E key \in CreatePodKeys : \E body \in Bodies[key[2]] :
         LET r == createPodHandlerGin(pods, key[1], body) IN
         /\ pods' = r.pods
         /\ resp' = Response("client", "CreatePod", key, r.code)
    /\ clientOps' = clientOps - 1
    /\ UNCHANGED <<mu, putReq, nodes, nextNodeIndex, schedPc, pendingPods, readyNodes,
                   kPc, kPods, restarts>>

\* PUT .../namespaces/key[1]/pods/key[2] with one of Bodies[key], up to the
\* handler's GetPod: it answers 400 or 404, or finds the Pod and leaves the
\* request in putReq
ClientUpdatePodOf(Bodies) ==
    /\ clientOps > 0
    /\ \E key \in PodKeys : \E body \in Bodies[key] :
         LET code == updatePodHandlerGinLookup(pods, key[1], key[2], body) IN
         IF code # 0
         THEN /\ resp' = Response("client", "UpdatePod", key, code)
              /\ putReq' = putReq
         ELSE /\ resp' = Response("client", "UpdatePodFound", key, 0)
              /\ putReq' = putReq \cup {Another(PutRequest("client", body))}
    /\ clientOps' = clientOps - 1
    /\ UNCHANGED <<mu, pods, nodes, nextNodeIndex, schedPc, pendingPods, readyNodes,
                   kPc, kPods, restarts>>

ClientCreatePod == ClientCreatePodOf([name \in PodNames |-> CreatePodBodies(name)])

ClientUpdatePod == ClientUpdatePodOf([key \in PodKeys |-> UpdatePodBodies(key)])

\* PUT .../pods/name with the stored Pod, deletionTimestamp set and nothing
\* else changed: the one request by which a deletionTimestamp enters the
\* store.  The step is the request up to the handler's GetPod.
ClientMarkPod ==
    /\ clientOps > 0
    /\ \E key \in PodKeys :
         /\ podKey(key[1], key[2]) \in DOMAIN pods
         /\ LET body == [pods[podKey(key[1], key[2])]
                             EXCEPT !.deletionTimestamp = "t"]
                code == updatePodHandlerGinLookup(pods, key[1], key[2], body)
            IN IF code # 0
               THEN /\ resp' = Response("client", "UpdatePod", key, code)
                    /\ putReq' = putReq
               ELSE /\ resp' = Response("client", "UpdatePodFound", key, 0)
                    /\ putReq' = putReq \cup {Another(PutRequest("client", body))}
    /\ clientOps' = clientOps - 1
    /\ UNCHANGED <<mu, pods, nodes, nextNodeIndex, schedPc, pendingPods, readyNodes,
                   kPc, kPods, restarts>>

ClientDeletePod ==
    /\ clientOps > 0
    /\ \E key \in PodKeys :
         LET r == deletePodHandlerGin(pods, key[1], key[2]) IN
         /\ pods' = r.pods
         /\ resp' = Response("client", "DeletePod", key, r.code)
    /\ clientOps' = clientOps - 1
    /\ UNCHANGED <<mu, putReq, nodes, nextNodeIndex, schedPc, pendingPods, readyNodes,
                   kPc, kPods, restarts>>

\* POST /api/v1/nodes for a Node whose name is in names
ClientCreateNodeOf(names) ==
    /\ clientOps > 0
    /\ \E body \in {b \in CreateNodeBodies : b.name \in names} :
         LET r == createNodeHandlerGin(nodes, body) IN
         /\ nodes' = r.nodes
         /\ resp' = Response("client", "CreateNode", <<body.name>>, r.code)
    /\ clientOps' = clientOps - 1
    /\ UNCHANGED <<mu, putReq, pods, nextNodeIndex, schedPc, pendingPods, readyNodes,
                   kPc, kPods, restarts>>

ClientCreateNode == ClientCreateNodeOf(NodeNames)

\* PUT /api/v1/nodes/name up to the handler's GetNode: it answers 400 or
\* 404, or finds the Node and leaves the request, the body with the name of
\* the path, in putReq
ClientUpdateNode ==
    /\ clientOps > 0
    /\ \E name \in NodeNames : \E body \in UpdateNodeBodies(name) :
         LET code == updateNodeHandlerGinLookup(nodes, name, body)
             updatedNode == [body EXCEPT !.name = name]
         IN IF code # 0
            THEN /\ resp' = Response("client", "UpdateNode", <<name>>, code)
                 /\ putReq' = putReq
            ELSE /\ resp' = Response("client", "UpdateNodeFound", <<name>>, 0)
                 /\ putReq' = putReq \cup
                                {Another(NodePutRequest("client", updatedNode))}
    /\ clientOps' = clientOps - 1
    /\ UNCHANGED <<mu, pods, nodes, nextNodeIndex, schedPc, pendingPods, readyNodes,
                   kPc, kPods, restarts>>

(***************************************************************************)
(* The scheduler: main's loop around schedulePods                          *)
(***************************************************************************)
\* a scheduler without the deletionTimestamp check of its loop
SchedulerBindsAll(pod) == TRUE

\* the Pods the loop of schedulePods hands to a Node (the others it skips)
SchedulerBinds(pod) == pod.deletionTimestamp = nil

\* readyNodes[nextNodeIndex % len(readyNodes)], Go's indices starting at 0
SelectNode(ready, index) == ready[(index % Len(ready)) + 1]

\* step 1: list the Pending Pods of the default namespace
SchedListPods ==
    /\ schedPc = "sleep"
    /\ \E order \in Orderings(ClientListPods(pods, DefaultNamespace, PodPending)) :
         /\ pendingPods' = [i \in 1..Len(order) |-> pods[order[i]]]
         /\ schedPc' = IF Len(order) = 0 THEN "sleep" ELSE "listNodes"
    /\ resp' = Response("scheduler", "ListPods", <<>>, 200)
    /\ UNCHANGED <<mu, putReq, pods, nodes, nextNodeIndex, readyNodes, kPc, kPods, clientOps,
                   restarts>>

\* a scheduler that takes a turn of its cursor when it finds no Ready Node
SchedListNodesTurn ==
    /\ schedPc = "listNodes"
    /\ \E order \in Orderings(ClientListNodes(nodes, NodeReady)) :
         /\ readyNodes' = [i \in 1..Len(order) |-> nodes[order[i]]]
         /\ schedPc' = IF Len(order) = 0 THEN "sleep" ELSE "assign"
         /\ pendingPods' = IF Len(order) = 0 THEN <<>> ELSE pendingPods
         /\ nextNodeIndex' = IF Len(order) = 0 /\ nextNodeIndex < MaxCursor
                             THEN nextNodeIndex + 1 ELSE nextNodeIndex
    /\ resp' = Response("scheduler", "ListNodes", <<>>, 200)
    /\ UNCHANGED <<mu, putReq, pods, nodes, kPc, kPods, clientOps, restarts>>

\* step 2: list the Ready Nodes
SchedListNodes ==
    /\ schedPc = "listNodes"
    /\ \E order \in Orderings(ClientListNodes(nodes, NodeReady)) :
         /\ readyNodes' = [i \in 1..Len(order) |-> nodes[order[i]]]
         /\ schedPc' = IF Len(order) = 0 THEN "sleep" ELSE "assign"
         /\ pendingPods' = IF Len(order) = 0 THEN <<>> ELSE pendingPods
    /\ resp' = Response("scheduler", "ListNodes", <<>>, 200)
    /\ UNCHANGED <<mu, putReq, pods, nodes, nextNodeIndex, kPc, kPods, clientOps,
                   restarts>>

\* what is left of the cycle after one iteration of the loop over pendingPods
SchedAdvance ==
    /\ pendingPods' = Tail(pendingPods)
    /\ schedPc' = IF Len(pendingPods) = 1 THEN "sleep" ELSE "assign"
    /\ readyNodes' = IF Len(pendingPods) = 1 THEN <<>> ELSE readyNodes

\* step 3, one iteration: a Pod marked for deletion is skipped
SchedSkip ==
    /\ schedPc = "assign"
    /\ ~SchedulerBinds(Head(pendingPods))
    /\ SchedAdvance
    /\ resp' = Response("scheduler", "skip",
                        <<Head(pendingPods).namespace, Head(pendingPods).name>>, 0)
    /\ UNCHANGED <<mu, putReq, pods, nodes, nextNodeIndex, kPc, kPods, clientOps,
                   restarts>>

\* a scheduler whose PUT carries the phase Scheduled and not yet the nodeName
SchedBindPhaseOnly ==
    /\ schedPc = "assign"
    /\ SchedulerBinds(Head(pendingPods))
    /\ nextNodeIndex < MaxCursor
    /\ LET pod == Head(pendingPods)
           podToUpdate == [pod EXCEPT !.phase = PodScheduled]
           key == <<pod.namespace, pod.name>>
           code == ClientUpdatePodLookup(pods, podToUpdate)
       IN IF code # 0
          THEN /\ resp' = Response("scheduler", "UpdatePod", key, code)
               /\ putReq' = putReq
               /\ SchedAdvance
          ELSE /\ resp' = Response("scheduler", "UpdatePodFound", key, 0)
               /\ putReq' = putReq \cup {PutRequest("scheduler", podToUpdate)}
               /\ schedPc' = "put"
               /\ UNCHANGED <<pendingPods, readyNodes>>
    /\ nextNodeIndex' = nextNodeIndex + 1
    /\ UNCHANGED <<mu, pods, nodes, kPc, kPods, clientOps, restarts>>

\* step 3 and 4, one iteration: select a Node, advance the cursor, PUT the
\* Pod.  The step is the request up to the handler's GetPod: the router or
\* the handler answers 400 or 404 and the loop goes on, or the handler finds
\* the Pod and the scheduler waits at "put" for the answer.
SchedBind ==
    /\ schedPc = "assign"
    /\ SchedulerBinds(Head(pendingPods))
    /\ nextNodeIndex < MaxCursor
    /\ LET pod == Head(pendingPods)
           selectedNode == SelectNode(readyNodes, nextNodeIndex)
           podToUpdate == [pod EXCEPT !.nodeName = selectedNode.name,
                                      !.phase = PodScheduled]
           key == <<pod.namespace, pod.name>>
           code == ClientUpdatePodLookup(pods, podToUpdate)
       IN IF code # 0
          THEN /\ resp' = Response("scheduler", "UpdatePod", key, code)
               /\ putReq' = putReq
               /\ SchedAdvance
          ELSE /\ resp' = Response("scheduler", "UpdatePodFound", key, 0)
               /\ putReq' = putReq \cup {PutRequest("scheduler", podToUpdate)}
               /\ schedPc' = "put"
               /\ UNCHANGED <<pendingPods, readyNodes>>
    /\ nextNodeIndex' = nextNodeIndex + 1
    /\ UNCHANGED <<mu, pods, nodes, kPc, kPods, clientOps, restarts>>

(***************************************************************************)
(* The kubelet of Node n: main, registerNode and the loop around syncPods  *)
(***************************************************************************)
\* the -address of the kubelet's command line
NodeAddress(n) == "addr-" \o n

\* the Node a kubelet registers
KubeletNode(n) == [name |-> n, address |-> NodeAddress(n), status |-> NodeReady]

\* the process is started
KubeletStart(n) ==
    /\ kPc[n] = "off"
    /\ kPc' = [kPc EXCEPT ![n] = "register"]
    /\ resp' = Response(n, "start", <<>>, 0)
    /\ UNCHANGED <<mu, putReq, pods, nodes, nextNodeIndex, schedPc, pendingPods, readyNodes,
                   kPods, clientOps, restarts>>

\* registerNode: POST the Node
RegisterCreate(n) ==
    /\ kPc[n] = "register"
    /\ LET r == createNodeHandlerGin(nodes, KubeletNode(n)) IN
       /\ nodes' = r.nodes
       /\ kPc' = [kPc EXCEPT ![n] = IF r.code = 201 THEN "sleep" ELSE "update"]
       /\ resp' = Response(n, "CreateNode", <<n>>, r.code)
    /\ UNCHANGED <<mu, putReq, pods, nextNodeIndex, schedPc, pendingPods, readyNodes,
                   kPods, clientOps, restarts>>

\* registerNode: the POST failed, PUT the Node.  The step is the request up
\* to the handler's GetNode: main exits when the router or the handler
\* refuses it, and waits at "putNode" when the handler finds the Node.
RegisterUpdate(n) ==
    /\ kPc[n] = "update"
    /\ LET node == KubeletNode(n)
           code == ClientUpdateNodeLookup(nodes, node)
       IN IF code # 0
          THEN /\ resp' = Response(n, "UpdateNode", <<n>>, code)
               /\ putReq' = putReq
               /\ kPc' = [kPc EXCEPT ![n] = "exited"]
          ELSE /\ resp' = Response(n, "UpdateNodeFound", <<n>>, 0)
               /\ putReq' = putReq \cup {NodePutRequest(n, node)}
               /\ kPc' = [kPc EXCEPT ![n] = "putNode"]
    /\ UNCHANGED <<mu, pods, nodes, nextNodeIndex, schedPc, pendingPods, readyNodes,
                   kPods, clientOps, restarts>>

\* syncPods: list all the Pods of the default namespace
SyncList(n) ==
    /\ kPc[n] = "sleep"
    /\ \E order \in Orderings(ClientListPods(pods, DefaultNamespace, "")) :
         /\ kPods' = [kPods EXCEPT ![n] = [i \in 1..Len(order) |-> pods[order[i]]]]
         /\ kPc' = [kPc EXCEPT ![n] = IF Len(order) = 0 THEN "sleep" ELSE "sync"]
    /\ resp' = Response(n, "ListPods", <<>>, 200)
    /\ UNCHANGED <<mu, putReq, pods, nodes, nextNodeIndex, schedPc, pendingPods, readyNodes,
                   clientOps, restarts>>

\* a kubelet whose termination handling still writes Succeeded
SyncPhaseSucceeded(pod) ==
    IF pod.deletionTimestamp # nil
    THEN IF pod.phase # PodSucceeded /\ pod.phase # PodFailed /\ pod.phase # PodDeleted
         THEN PodSucceeded ELSE ""
    ELSE IF pod.phase = PodScheduled THEN PodRunning
    ELSE IF pod.phase = PodRunning THEN ""
    ELSE IF pod.phase = PodTerminating THEN PodDeleted
    ELSE IF pod.phase = PodDeleting THEN PodSucceeded
    ELSE ""

\* a kubelet that starts a Pod again whatever it did before
SyncPhaseRestart(pod) ==
    IF pod.deletionTimestamp # nil
    THEN IF pod.phase # PodSucceeded /\ pod.phase # PodFailed /\ pod.phase # PodDeleted
         THEN PodDeleted ELSE ""
    ELSE IF pod.phase = PodScheduled THEN PodRunning
    ELSE IF pod.phase = PodRunning THEN ""
    ELSE IF pod.phase = PodTerminating THEN PodDeleted
    ELSE IF pod.phase = PodDeleting THEN PodSucceeded
    ELSE IF pod.phase \in {PodSucceeded, PodFailed} THEN PodRunning
    ELSE ""

\* syncPods, the branch of a Pod with a deletionTimestamp: the phases it PUTs,
\* in order; it ends with continue
SyncDeletionBranch(pod) ==
    IF pod.phase # PodSucceeded /\ pod.phase # PodFailed /\ pod.phase # PodDeleted
    THEN <<PodDeleted>> ELSE <<>>

\* syncPods, the switch on the phase: the phases it PUTs, in order
SyncPhaseSwitch(pod) ==
    IF pod.phase = PodScheduled THEN <<PodRunning>>
    ELSE IF pod.phase = PodRunning THEN <<>>
    ELSE IF pod.phase = PodTerminating
    THEN IF pod.phase # PodSucceeded /\ pod.phase # PodFailed /\ pod.phase # PodDeleted
         THEN <<PodDeleted>> ELSE <<>>
    ELSE IF pod.phase = PodDeleting
    THEN IF pod.phase # PodSucceeded /\ pod.phase # PodFailed
         THEN <<PodSucceeded>> ELSE <<>>
    ELSE <<>>

\* an iteration in which the switch follows the deletionTimestamp branch
SyncWritesBoth(pod) ==
    (IF pod.deletionTimestamp # nil THEN SyncDeletionBranch(pod) ELSE <<>>)
        \o SyncPhaseSwitch(pod)

\* the phases one iteration of syncPods PUTs for a listed Pod of its Node
SyncWrites(pod) ==
    IF pod.deletionTimestamp # nil THEN SyncDeletionBranch(pod)
    ELSE SyncPhaseSwitch(pod)

\* the phase syncPods writes for a listed Pod of its Node, "" when it writes
\* nothing
SyncPhase(pod) ==
    IF pod.deletionTimestamp # nil
    THEN IF pod.phase # PodSucceeded /\ pod.phase # PodFailed /\ pod.phase # PodDeleted
         THEN PodDeleted ELSE ""
    ELSE IF pod.phase = PodScheduled THEN PodRunning
    ELSE IF pod.phase = PodRunning THEN ""
    ELSE IF pod.phase = PodTerminating THEN PodDeleted
    ELSE IF pod.phase = PodDeleting THEN PodSucceeded
    ELSE ""

\* a kubelet that handles every Pod of its listing
SyncMineAll(n, pod) == pod.nodeName \in NodeNames \cup {""}

\* the Pods of the listing syncPods handles
SyncMine(n, pod) == pod.nodeName = n

\* what is left of the cycle after one iteration of the loop over pods
SyncAdvance(n) ==
    /\ kPods' = [kPods EXCEPT ![n] = Tail(kPods[n])]
    /\ kPc' = [kPc EXCEPT ![n] = IF Len(kPods[n]) = 1 THEN "sleep" ELSE "sync"]


\* one iteration that issues no request
SyncSkip(n) ==
    /\ kPc[n] = "sync"
    /\ LET pod == Head(kPods[n]) IN
       /\ ~SyncMine(n, pod) \/ SyncPhase(pod) = ""
       /\ resp' = Response(n, "skip", <<pod.namespace, pod.name>>, 0)
    /\ SyncAdvance(n)
    /\ UNCHANGED <<mu, putReq, pods, nodes, nextNodeIndex, schedPc, pendingPods, readyNodes,
                   clientOps, restarts>>

\* one iteration that PUTs the Pod with its new phase.  The step is the
\* request up to the handler's GetPod; the kubelet waits at "put" when the
\* handler finds the Pod.
SyncUpdate(n) ==
    /\ kPc[n] = "sync"
    /\ LET pod == Head(kPods[n])
           updatedPod == [pod EXCEPT !.phase = SyncPhase(pod)]
           key == <<pod.namespace, pod.name>>
           code == ClientUpdatePodLookup(pods, updatedPod)
       IN /\ SyncMine(n, pod) /\ SyncPhase(pod) # ""
          /\ IF code # 0
             THEN /\ resp' = Response(n, "UpdatePod", key, code)
                  /\ putReq' = putReq
                  /\ SyncAdvance(n)
             ELSE /\ resp' = Response(n, "UpdatePodFound", key, 0)
                  /\ putReq' = putReq \cup {PutRequest(n, updatedPod)}
                  /\ kPc' = [kPc EXCEPT ![n] = "put"]
                  /\ kPods' = kPods
    /\ UNCHANGED <<mu, pods, nodes, nextNodeIndex, schedPc, pendingPods, readyNodes,
                   clientOps, restarts>>

(***************************************************************************)
(* The second step of a PUT: the handler's write and its answer            *)
(***************************************************************************)
\* senders that give up the rest of their cycle when the PUT is refused
PutWriteAbort(a) ==
    \E q \in putReq :
        /\ q.actor = a /\ q.kind = "pod" /\ Latest(q)
        /\ LET r == updatePodHandlerGinWrite(pods, q.body) IN
           /\ pods' = r.pods
           /\ resp' = Response(a, "UpdatePod",
                               <<q.body.namespace, q.body.name>>, r.code)
           /\ IF a = "scheduler"
              THEN /\ IF r.code = 200 THEN SchedAdvance
                      ELSE pendingPods' = <<>> /\ readyNodes' = <<>> /\ schedPc' = "sleep"
                   /\ UNCHANGED <<kPc, kPods>>
              ELSE IF a \in Kubelets
              THEN /\ IF r.code = 200 THEN SyncAdvance(a)
                      ELSE /\ kPods' = [kPods EXCEPT ![a] = <<>>]
                           /\ kPc' = [kPc EXCEPT ![a] = "sleep"]
                   /\ UNCHANGED <<schedPc, pendingPods, readyNodes>>
              ELSE UNCHANGED <<schedPc, pendingPods, readyNodes, kPc, kPods>>
        /\ putReq' = putReq \ {q}
        /\ UNCHANGED <<mu, nodes, nextNodeIndex, clientOps, restarts>>

\* the handler's UpdatePod for a PUT of a, 200 or, the Pod being gone since
\* the handler's GetPod, 500, and what a loop does with the answer
PutWrite(a) ==
    \E q \in putReq :
        /\ q.actor = a /\ q.kind = "pod" /\ Latest(q)
        /\ LET r == updatePodHandlerGinWrite(pods, q.body) IN
           /\ pods' = r.pods
           /\ resp' = Response(a, "UpdatePod",
                               <<q.body.namespace, q.body.name>>, r.code)
        /\ putReq' = putReq \ {q}
        /\ IF a = "scheduler"
           THEN SchedAdvance /\ UNCHANGED <<kPc, kPods>>
           ELSE IF a \in Kubelets
           THEN SyncAdvance(a) /\ UNCHANGED <<schedPc, pendingPods, readyNodes>>
           ELSE UNCHANGED <<schedPc, pendingPods, readyNodes, kPc, kPods>>
        /\ UNCHANGED <<mu, nodes, nextNodeIndex, clientOps, restarts>>

\* the handler's UpdateNode for a PUT of a; a kubelet that waits for the
\* answer starts its loop on 200 and exits otherwise
NodePutWrite(a) ==
    \E q \in putReq :
        /\ q.actor = a /\ q.kind = "node" /\ Latest(q)
        /\ LET r == updateNodeHandlerGinWrite(nodes, q.body) IN
           /\ nodes' = r.nodes
           /\ resp' = Response(a, "UpdateNode", <<q.body.name>>, r.code)
           /\ kPc' = IF a \in Kubelets
                     THEN [kPc EXCEPT ![a] = IF r.code = 200 THEN "sleep"
                                             ELSE "exited"]
                     ELSE kPc
        /\ putReq' = putReq \ {q}
        /\ UNCHANGED <<mu, pods, nextNodeIndex, schedPc, pendingPods, readyNodes,
                       kPods, clientOps, restarts>>

\* the sender of a request whose answer nobody waits for: its process is
\* gone or has given up on it
Stopped == "stopped"

\* the requests of the process of n that are in the server when it stops
Abandoned(n) ==
    {Another([q EXCEPT !.actor = Stopped]) : q \in {p \in putReq : p.actor = n}}

\* the process is stopped, wherever it is, and started again; the server
\* goes on with a request it has read
KubeletRestart(n) ==
    /\ kPc[n] # "off"
    /\ restarts < MaxRestarts
    /\ restarts' = restarts + 1
    /\ putReq' = {q \in putReq : q.actor # n} \cup Abandoned(n)
    /\ kPc' = [kPc EXCEPT ![n] = "register"]
    /\ kPods' = [kPods EXCEPT ![n] = <<>>]
    /\ resp' = Response(n, "restart", <<>>, 0)
    /\ UNCHANGED <<mu, pods, nodes, nextNodeIndex, schedPc, pendingPods, readyNodes,
                   clientOps>>

Scheduler ==
    \/ SchedListPods
    \/ SchedListNodes
    \/ SchedSkip
    \/ SchedBind
    \/ PutWrite("scheduler")

Kubelet(n) ==
    \/ KubeletStart(n)
    \/ RegisterCreate(n)
    \/ RegisterUpdate(n)
    \/ NodePutWrite(n)
    \/ SyncList(n)
    \/ SyncSkip(n)
    \/ SyncUpdate(n)
    \/ PutWrite(n)

\* the external client beside both loops: its POSTs and PUTs of Pods carry
\* the plain bodies (the other bodies are those of SpecSync and SpecApi)
Client ==
    \/ ClientCreatePodOf([name \in PodNames |-> PlainPodBodies(name)])
    \/ ClientUpdatePodOf([key \in PodKeys |-> PlainPutBodies(key)])
    \/ PutWrite("client")
    \/ ClientDeletePod
    \/ ClientCreateNode
    \/ ClientUpdateNode
    \/ NodePutWrite("client")

\* the client, with a longer run of requests, and the scheduler; no kubelet
\* runs
NextWide ==
    \/ Client
    \/ Scheduler

SpecWide == InitWide /\ [][NextWide]_vars

Next ==
    \/ Client
    \/ Scheduler
    \/ \E n \in ClientKubelets : Kubelet(n)

Spec == Init /\ [][Next]_vars

(***************************************************************************)
(* The loops without client interference: the client only creates Pods and *)
(* may register the kubelet's Node before the kubelet does, no Node exists *)
(* without its kubelet, and the scheduler and the kubelet keep cycling     *)
(* (for { ...; time.Sleep(interval) } in both mains).                      *)
(***************************************************************************)
NextLive ==
    \/ ClientCreatePod
    \/ ClientCreateNodeOf(ClientKubelets)
    \/ Scheduler
    \/ \E n \in ClientKubelets : Kubelet(n)

SpecLive ==
    /\ Init
    /\ [][NextLive]_vars
    /\ WF_vars(Scheduler)
    /\ \A n \in ClientKubelets : WF_vars(Kubelet(n))

(***************************************************************************)
(* The loops and a client that creates Pods and marks stored Pods for       *)
(* deletion, never removing a record: the scheduler and the kubelet keep    *)
(* cycling, and the server answers the client.                              *)
(***************************************************************************)
NextMark ==
    \/ ClientCreatePod
    \/ ClientMarkPod
    \/ PutWrite("client")
    \/ ClientCreateNodeOf(ClientKubelets)
    \/ Scheduler
    \/ \E n \in ClientKubelets : Kubelet(n)

SpecMark ==
    /\ Init
    /\ [][NextMark]_vars
    /\ WF_vars(Scheduler)
    /\ \A n \in ClientKubelets : WF_vars(Kubelet(n))
    /\ WF_vars(PutWrite("client"))

(***************************************************************************)
(* Node registration alone: the kubelets of both Nodes start, register and *)
(* are restarted, while a client creates and updates Node records.         *)
(***************************************************************************)
NextRegister ==
    \/ ClientCreateNodeOf(Kubelets)
    \/ ClientUpdateNode
    \/ NodePutWrite("client")
    \/ NodePutWrite(Stopped)
    \/ \E n \in Kubelets :
         \/ KubeletStart(n)
         \/ RegisterCreate(n)
         \/ RegisterUpdate(n)
         \/ NodePutWrite(n)
         \/ KubeletRestart(n)

SpecRegister == Init /\ [][NextRegister]_vars

(***************************************************************************)
(* The loops and a client that creates, deletes and PUTs Pods, the PUT     *)
(* with the body of a new Pod or of a failed one: a DELETE or another PUT  *)
(* falls between the two steps of a PUT.                                   *)
(***************************************************************************)
\* the bodies a client PUTs here
RacePutBodies(key) ==
    {b \in UpdatePodBodies(key) :
        /\ b.image = "nginx" /\ b.nodeName = "" /\ b.deletionTimestamp = nil
        /\ b.phase \in {PodPending, PodFailed}}

ClientPutLookup == ClientUpdatePodOf([key \in PodKeys |-> RacePutBodies(key)])

NextRace ==
    \/ ClientCreatePod
    \/ ClientDeletePod
    \/ ClientPutLookup
    \/ PutWrite("client")
    \/ ClientCreateNodeOf(ClientKubelets)
    \/ Scheduler
    \/ \E n \in ClientKubelets : Kubelet(n)

SpecRace == Init /\ [][NextRace]_vars

(***************************************************************************)
(* The kubelet alone with a client that creates Pods and PUTs them with    *)
(* any phase, nodeName and deletionTimestamp: the kubelet meets every Pod  *)
(* a listing can hold.                                                     *)
(***************************************************************************)
NextSync ==
    \/ ClientCreatePod
    \/ ClientUpdatePod
    \/ PutWrite("client")
    \/ ClientCreateNodeOf(ClientKubelets)
    \/ \E n \in ClientKubelets : Kubelet(n)

SpecSync == Init /\ [][NextSync]_vars

(***************************************************************************)
(* The API alone: any HTTP client sends requests, well formed or not, and  *)
(* resp keeps the body that was sent.  A request addresses the Pod or the  *)
(* Node of its URL; the body of a POST or PUT is any JSON the handler can  *)
(* bind, with an empty or a foreign name too.                              *)
(***************************************************************************)
\* the bodies of a POST or PUT of a Pod
ApiPodBodies ==
    [name : PodNames \cup {""}, namespace : Namespaces, image : Images,
     nodeName : {"", "n1"}, phase : {PodPending, PodRunning},
     deletionTimestamp : Times]

\* the bodies of a POST or PUT of a Node
ApiNodeBodies ==
    [name : {"", "n1", "n2"}, address : {"addr-x"}, status : NodeStatus]

ApiResponse(op, key, code, body) ==
    [actor |-> "client", op |-> op, key |-> key, code |-> code, body |-> body]

\* a PUT between the two store calls of its handler: the parameters of the
\* path, the body that was sent and the record the handler is to write
ApiPutRequest(kind, key, sent, body) ==
    [actor |-> "client", kind |-> kind, key |-> key, sent |-> sent, body |-> body,
     copy |-> 1]

\* POST /api/v1/namespaces/:namespace/pods
ApiCreatePod ==
    /\ clientOps > 0
    /\ \E namespace \in Namespaces : \E body \in ApiPodBodies :
         LET r == createPodHandlerGin(pods, namespace, body) IN
         /\ pods' = r.pods
         /\ resp' = ApiResponse("CreatePod", <<namespace, body.name>>, r.code, body)
    /\ clientOps' = clientOps - 1
    /\ UNCHANGED <<mu, putReq, nodes, nextNodeIndex, schedPc, pendingPods, readyNodes,
                   kPc, kPods, restarts>>

\* PUT /api/v1/namespaces/:namespace/pods/:podname up to the handler's GetPod
ApiUpdatePod ==
    /\ clientOps > 0
    /\ \E key \in PodKeys : \E body \in ApiPodBodies :
         LET code == updatePodHandlerGinLookup(pods, key[1], key[2], body) IN
         IF code # 0
         THEN /\ resp' = ApiResponse("UpdatePod", key, code, body)
              /\ putReq' = putReq
         ELSE /\ resp' = ApiResponse("UpdatePodFound", key, 0, body)
              /\ putReq' = putReq \cup
                             {Another(ApiPutRequest("pod", key, body, body))}
    /\ clientOps' = clientOps - 1
    /\ UNCHANGED <<mu, pods, nodes, nextNodeIndex, schedPc, pendingPods, readyNodes,
                   kPc, kPods, restarts>>

\* the handler's UpdatePod for a PUT of a Pod and its answer
ApiPodPutWrite ==
    \E q \in putReq :
        /\ q.kind = "pod" /\ Latest(q)
        /\ LET r == updatePodHandlerGinWrite(pods, q.body) IN
           /\ pods' = r.pods
           /\ resp' = ApiResponse("UpdatePod", q.key, r.code, q.sent)
        /\ putReq' = putReq \ {q}
        /\ UNCHANGED <<mu, nodes, nextNodeIndex, schedPc, pendingPods, readyNodes,
                       kPc, kPods, clientOps, restarts>>

\* DELETE /api/v1/namespaces/:namespace/pods/:podname
ApiDeletePod ==
    /\ clientOps > 0
    /\ \E key \in PodKeys :
         LET r == deletePodHandlerGin(pods, key[1], key[2]) IN
         /\ pods' = r.pods
         /\ resp' = ApiResponse("DeletePod", key, r.code, <<>>)
    /\ clientOps' = clientOps - 1
    /\ UNCHANGED <<mu, putReq, nodes, nextNodeIndex, schedPc, pendingPods, readyNodes,
                   kPc, kPods, restarts>>

\* POST /api/v1/nodes
ApiCreateNode ==
    /\ clientOps > 0
    /\ \E body \in ApiNodeBodies :
         LET r == createNodeHandlerGin(nodes, body) IN
         /\ nodes' = r.nodes
         /\ resp' = ApiResponse("CreateNode", <<body.name>>, r.code, body)
    /\ clientOps' = clientOps - 1
    /\ UNCHANGED <<mu, putReq, pods, nextNodeIndex, schedPc, pendingPods, readyNodes,
                   kPc, kPods, restarts>>

\* PUT /api/v1/nodes/:nodename up to the handler's GetNode
ApiUpdateNode ==
    /\ clientOps > 0
    /\ \E name \in NodeNames : \E body \in ApiNodeBodies :
         LET code == updateNodeHandlerGinLookup(nodes, name, body)
             updatedNode == [body EXCEPT !.name = name]
         IN IF code # 0
            THEN /\ resp' = ApiResponse("UpdateNode", <<name>>, code, body)
                 /\ putReq' = putReq
            ELSE /\ resp' = ApiResponse("UpdateNodeFound", <<name>>, 0, body)
                 /\ putReq' = putReq \cup
                      {Another(ApiPutRequest("node", <<name>>, body, updatedNode))}
    /\ clientOps' = clientOps - 1
    /\ UNCHANGED <<mu, pods, nodes, nextNodeIndex, schedPc, pendingPods, readyNodes,
                   kPc, kPods, restarts>>

\* the handler's UpdateNode for a PUT of a Node and its answer
ApiNodePutWrite ==
    \E q \in putReq :
        /\ q.kind = "node" /\ Latest(q)
        /\ LET r == updateNodeHandlerGinWrite(nodes, q.body) IN
           /\ nodes' = r.nodes
           /\ resp' = ApiResponse("UpdateNode", q.key, r.code, q.sent)
        /\ putReq' = putReq \ {q}
        /\ UNCHANGED <<mu, pods, nextNodeIndex, schedPc, pendingPods, readyNodes,
                       kPc, kPods, clientOps, restarts>>

NextApi ==
    \/ ApiCreatePod
    \/ ApiUpdatePod
    \/ ApiPodPutWrite
    \/ ApiDeletePod
    \/ ApiCreateNode
    \/ ApiUpdateNode
    \/ ApiNodePutWrite

SpecApi == Init /\ [][NextApi]_vars

(***************************************************************************)
(* The start of a kubelet when the server may be out of reach: a request   *)
(* of registerNode that gets no answer within the client's timeout (the    *)
(* connection fails, the answer is late or lost) returns an error like a   *)
(* refused one.  The server has acted on the request, or never does, or    *)
(* does so later, whatever the kubelet has done by then.                   *)
(***************************************************************************)
\* a request that is on its way to its handler when its sender gives up
LateRequest(kind, body) ==
    [actor |-> Stopped, kind |-> kind, body |-> body, copy |-> 1]

\* registerNode: the POST gets no answer, the PUT is tried; the request is
\* lost, or the server has stored the Node, or the request is yet to reach
\* its handler
RegisterCreateFail(n) ==
    /\ kPc[n] = "register"
    /\ \E outcome \in {"lost", "served", "late"} :
         /\ nodes' = IF outcome = "served"
                     THEN createNodeHandlerGin(nodes, KubeletNode(n)).nodes
                     ELSE nodes
         /\ putReq' = IF outcome = "late"
                      THEN putReq \cup
                             {Another(LateRequest("latePost", KubeletNode(n)))}
                      ELSE putReq
    /\ kPc' = [kPc EXCEPT ![n] = "update"]
    /\ resp' = Response(n, "CreateNodeFailed", <<n>>, 0)
    /\ UNCHANGED <<mu, pods, nextNodeIndex, schedPc, pendingPods, readyNodes,
                   kPods, clientOps, restarts>>

\* createNodeHandlerGin for a POST that reaches it after its sender gave up
NodePostLate ==
    \E q \in putReq :
        /\ q.kind = "latePost" /\ Latest(q)
        /\ LET r == createNodeHandlerGin(nodes, q.body) IN
           /\ nodes' = r.nodes
           /\ resp' = Response(Stopped, "CreateNode", <<q.body.name>>, r.code)
        /\ putReq' = putReq \ {q}
        /\ UNCHANGED <<mu, pods, nextNodeIndex, schedPc, pendingPods, readyNodes,
                       kPc, kPods, clientOps, restarts>>

\* updateNodeHandlerGin, up to its GetNode, for a PUT that reaches it after
\* its sender gave up
NodePutLate ==
    \E q \in putReq :
        /\ q.kind = "latePut" /\ Latest(q)
        /\ LET code == ClientUpdateNodeLookup(nodes, q.body) IN
           IF code # 0
           THEN /\ resp' = Response(Stopped, "UpdateNode", <<q.body.name>>, code)
                /\ putReq' = putReq \ {q}
           ELSE /\ resp' = Response(Stopped, "UpdateNodeFound", <<q.body.name>>, 0)
                /\ putReq' = (putReq \ {q}) \cup
                               {Another(NodePutRequest(Stopped, q.body))}
        /\ UNCHANGED <<mu, pods, nodes, nextNodeIndex, schedPc, pendingPods,
                       readyNodes, kPc, kPods, clientOps, restarts>>

\* the requests in the server once the kubelet of n has given up on its
\* PUT: the PUT is lost or yet to reach its handler, or the handler has
\* read the Node and goes on to write it
RegisterUpdateLeft(n, late) ==
    IF kPc[n] = "update" /\ late
    THEN putReq \cup {Another(LateRequest("latePut", KubeletNode(n)))}
    ELSE {q \in putReq : q.actor # n} \cup Abandoned(n)

\* a kubelet that starts its loop although the PUT got no answer
RegisterUpdateFailIgnored(n) ==
    /\ kPc[n] \in {"update", "putNode"}
    /\ \E late \in BOOLEAN : putReq' = RegisterUpdateLeft(n, late)
    /\ kPc' = [kPc EXCEPT ![n] = "sleep"]
    /\ resp' = Response(n, "UpdateNodeFailed", <<n>>, 0)
    /\ UNCHANGED <<mu, pods, nodes, nextNodeIndex, schedPc, pendingPods, readyNodes,
                   kPods, clientOps, restarts>>

\* registerNode: the PUT gets no answer either, main exits (log.Fatalf)
RegisterUpdateFail(n) ==
    /\ kPc[n] \in {"update", "putNode"}
    /\ \E late \in BOOLEAN : putReq' = RegisterUpdateLeft(n, late)
    /\ kPc' = [kPc EXCEPT ![n] = "exited"]
    /\ resp' = Response(n, "UpdateNodeFailed", <<n>>, 0)
    /\ UNCHANGED <<mu, pods, nodes, nextNodeIndex, schedPc, pendingPods, readyNodes,
                   kPods, clientOps, restarts>>

NextStartup ==
    \/ ClientCreatePod
    \/ ClientCreateNodeOf(ClientKubelets)
    \/ Scheduler
    \/ NodePostLate
    \/ NodePutLate
    \/ NodePutWrite(Stopped)
    \/ \E n \in ClientKubelets :
         \/ Kubelet(n)
         \/ RegisterCreateFail(n)
         \/ RegisterUpdateFail(n)

SpecStartup == Init /\ [][NextStartup]_vars

(***************************************************************************)
(* The loops while Pods are removed under them: a client creates Pods and  *)
(* Nodes and DELETEs stored Pods, so that a loop's PUT meets a Pod that is *)
(* gone, before the handler's GetPod (404) or after it (500).  The loops   *)
(* and the server keep running.                                            *)
(***************************************************************************)
\* DELETE of a stored Pod; there are no more of these than creations
ClientDeleteStoredPod ==
    /\ \E key \in PodKeys :
         /\ podKey(key[1], key[2]) \in DOMAIN pods
         /\ LET r == deletePodHandlerGin(pods, key[1], key[2]) IN
            /\ pods' = r.pods
            /\ resp' = Response("client", "DeletePod", key, r.code)
    /\ UNCHANGED <<mu, putReq, nodes, nextNodeIndex, schedPc, pendingPods, readyNodes,
                   kPc, kPods, clientOps, restarts>>

NextRemove ==
    \/ ClientCreatePodOf([name \in PodNames |-> PlainPodBodies(name)])
    \/ ClientDeleteStoredPod
    \/ ClientCreateNodeOf(ClientKubelets)
    \/ Scheduler
    \/ \E n \in ClientKubelets : Kubelet(n)

SpecRemove ==
    /\ Init
    /\ [][NextRemove]_vars
    /\ WF_vars(Scheduler)
    /\ \A n \in ClientKubelets : WF_vars(Kubelet(n))

(***************************************************************************)
(* The store's lock.  Every method of InMemoryStore starts with            *)
(* s.mu.Lock() or s.mu.RLock() and defers the unlock, so a call is two     *)
(* steps here: the lock is taken, then the method runs and, returning a    *)
(* value or an error, gives the lock back.  A PUT of a Pod is the two      *)
(* calls of its handler, GetPod and UpdatePod; a PUT whose URL has no route *)
(* is answered by the router and calls nothing.  A kubelet whose Node is   *)
(* stored when it starts registers by a PUT, the two calls GetNode and     *)
(* UpdateNode of its handler.  The client creates and deletes Pods and     *)
(* creates the Node of a kubelet (kubectl-lite register node).             *)
(***************************************************************************)
LockActors == {"scheduler", "client"} \cup ClientKubelets

\* the caller a is inside a method of the store
Holds(a) == mu.writer = a \/ a \in mu.readers

\* s.mu.Lock() returns for a call made for a
MuLock(a) ==
    /\ ~Holds(a)
    /\ mu.writer = "none"
    /\ mu.readers = {}
    /\ mu' = [mu EXCEPT !.writer = a]
    /\ resp' = Response(a, "Lock", <<>>, 0)
    /\ UNCHANGED <<putReq, pods, nodes, nextNodeIndex, schedPc, pendingPods, readyNodes,
                   kPc, kPods, clientOps, restarts>>

\* s.mu.RLock() returns for a call made for a
MuRLock(a) ==
    /\ ~Holds(a)
    /\ mu.writer = "none"
    /\ mu' = [mu EXCEPT !.readers = @ \cup {a}]
    /\ resp' = Response(a, "RLock", <<>>, 0)
    /\ UNCHANGED <<putReq, pods, nodes, nextNodeIndex, schedPc, pendingPods, readyNodes,
                   kPc, kPods, clientOps, restarts>>

\* defer s.mu.Unlock() and defer s.mu.RUnlock()
MuUnlock(a) == mu' = [mu EXCEPT !.writer = "none"]
MuRUnlock(a) == mu' = [mu EXCEPT !.readers = @ \ {a}]

\* the scheduler's next call of the store takes the lock
SchedLock ==
    \/ schedPc \in {"sleep", "listNodes"} /\ MuRLock("scheduler")
    \/ /\ schedPc = "assign"
       /\ SchedulerBinds(Head(pendingPods))
       /\ nextNodeIndex < MaxCursor
       /\ ClientUpdatePodRoute(Head(pendingPods)).ok
       /\ MuRLock("scheduler")
    \/ schedPc = "put" /\ MuLock("scheduler")

\* SchedBind for a Pod whose URL has no route: the router answers 404
SchedBindNoRoute ==
    /\ schedPc = "assign"
    /\ SchedulerBinds(Head(pendingPods))
    /\ nextNodeIndex < MaxCursor
    /\ ~ClientUpdatePodRoute(Head(pendingPods)).ok
    /\ resp' = Response("scheduler", "UpdatePod",
                        <<Head(pendingPods).namespace, Head(pendingPods).name>>,
                        ClientUpdatePodLookup(pods, Head(pendingPods)))
    /\ SchedAdvance
    /\ nextNodeIndex' = nextNodeIndex + 1
    /\ UNCHANGED <<mu, putReq, pods, nodes, kPc, kPods, clientOps, restarts>>

\* SchedListPods inside ListPods
SchedListPodsLocked ==
    /\ "scheduler" \in mu.readers
    /\ schedPc = "sleep"
    /\ \E order \in Orderings(ClientListPods(pods, DefaultNamespace, PodPending)) :
         /\ pendingPods' = [i \in 1..Len(order) |-> pods[order[i]]]
         /\ schedPc' = IF Len(order) = 0 THEN "sleep" ELSE "listNodes"
    /\ resp' = Response("scheduler", "ListPods", <<>>, 200)
    /\ MuRUnlock("scheduler")
    /\ UNCHANGED <<putReq, pods, nodes, nextNodeIndex, readyNodes, kPc, kPods, clientOps,
                   restarts>>

\* SchedListNodes inside ListNodes
SchedListNodesLocked ==
    /\ "scheduler" \in mu.readers
    /\ schedPc = "listNodes"
    /\ \E order \in Orderings(ClientListNodes(nodes, NodeReady)) :
         /\ readyNodes' = [i \in 1..Len(order) |-> nodes[order[i]]]
         /\ schedPc' = IF Len(order) = 0 THEN "sleep" ELSE "assign"
         /\ pendingPods' = IF Len(order) = 0 THEN <<>> ELSE pendingPods
    /\ resp' = Response("scheduler", "ListNodes", <<>>, 200)
    /\ MuRUnlock("scheduler")
    /\ UNCHANGED <<putReq, pods, nodes, nextNodeIndex, kPc, kPods, clientOps,
                   restarts>>

\* SchedBind inside the handler's GetPod
SchedGetPodLocked ==
    /\ "scheduler" \in mu.readers
    /\ schedPc = "assign"
    /\ SchedulerBinds(Head(pendingPods))
    /\ nextNodeIndex < MaxCursor
    /\ LET pod == Head(pendingPods)
           selectedNode == SelectNode(readyNodes, nextNodeIndex)
           podToUpdate == [pod EXCEPT !.nodeName = selectedNode.name,
                                      !.phase = PodScheduled]
           key == <<pod.namespace, pod.name>>
           code == ClientUpdatePodLookup(pods, podToUpdate)
       IN IF code # 0
          THEN /\ resp' = Response("scheduler", "UpdatePod", key, code)
               /\ putReq' = putReq
               /\ SchedAdvance
          ELSE /\ resp' = Response("scheduler", "UpdatePodFound", key, 0)
               /\ putReq' = putReq \cup {PutRequest("scheduler", podToUpdate)}
               /\ schedPc' = "put"
               /\ UNCHANGED <<pendingPods, readyNodes>>
    /\ nextNodeIndex' = nextNodeIndex + 1
    /\ MuRUnlock("scheduler")
    /\ UNCHANGED <<pods, nodes, kPc, kPods, clientOps, restarts>>

\* a handler whose UpdatePod returns its error with the lock still held
PutWriteLockedKept(a) ==
    \E q \in putReq :
        /\ q.actor = a /\ q.kind = "pod" /\ Latest(q)
        /\ mu.writer = a
        /\ LET r == updatePodHandlerGinWrite(pods, q.body) IN
           /\ pods' = r.pods
           /\ resp' = Response(a, "UpdatePod",
                               <<q.body.namespace, q.body.name>>, r.code)
           /\ IF r.code = 200 THEN MuUnlock(a) ELSE mu' = mu
        /\ putReq' = putReq \ {q}
        /\ IF a = "scheduler"
           THEN SchedAdvance /\ UNCHANGED <<kPc, kPods>>
           ELSE SyncAdvance(a) /\ UNCHANGED <<schedPc, pendingPods, readyNodes>>
        /\ UNCHANGED <<nodes, nextNodeIndex, clientOps, restarts>>

\* PutWrite inside UpdatePod, for the PUT of the loop a
PutWriteLocked(a) ==
    \E q \in putReq :
        /\ q.actor = a /\ q.kind = "pod" /\ Latest(q)
        /\ mu.writer = a
        /\ LET r == updatePodHandlerGinWrite(pods, q.body) IN
           /\ pods' = r.pods
           /\ resp' = Response(a, "UpdatePod",
                               <<q.body.namespace, q.body.name>>, r.code)
        /\ putReq' = putReq \ {q}
        /\ MuUnlock(a)
        /\ IF a = "scheduler"
           THEN SchedAdvance /\ UNCHANGED <<kPc, kPods>>
           ELSE SyncAdvance(a) /\ UNCHANGED <<schedPc, pendingPods, readyNodes>>
        /\ UNCHANGED <<nodes, nextNodeIndex, clientOps, restarts>>

\* the steps of the scheduler inside a method of the store
SchedulerCritical ==
    \/ SchedListPodsLocked
    \/ SchedListNodesLocked
    \/ SchedGetPodLocked
    \/ PutWriteLocked("scheduler")

SchedulerLocked == SchedLock \/ SchedSkip \/ SchedBindNoRoute \/ SchedulerCritical

\* the next call of the store by the kubelet of n takes the lock (a Pod of
\* its Node has been bound by a PUT, so that its URL has a route, and so
\* has the URL of the Node of a kubelet that runs here)
KubeletLock(n) ==
    \/ kPc[n] \in {"register", "putNode", "put"} /\ MuLock(n)
    \/ kPc[n] = "sleep" /\ MuRLock(n)
    \/ /\ kPc[n] = "update"
       /\ ClientUpdateNodeRoute(KubeletNode(n)).ok
       /\ MuRLock(n)
    \/ /\ kPc[n] = "sync"
       /\ SyncMine(n, Head(kPods[n]))
       /\ SyncPhase(Head(kPods[n])) # ""
       /\ ClientUpdatePodRoute(Head(kPods[n])).ok
       /\ MuRLock(n)

\* RegisterCreate inside CreateNode
RegisterCreateLocked(n) ==
    /\ mu.writer = n
    /\ kPc[n] = "register"
    /\ LET r == createNodeHandlerGin(nodes, KubeletNode(n)) IN
       /\ nodes' = r.nodes
       /\ kPc' = [kPc EXCEPT ![n] = IF r.code = 201 THEN "sleep" ELSE "update"]
       /\ resp' = Response(n, "CreateNode", <<n>>, r.code)
    /\ MuUnlock(n)
    /\ UNCHANGED <<putReq, pods, nextNodeIndex, schedPc, pendingPods, readyNodes,
                   kPods, clientOps, restarts>>

\* RegisterUpdate inside the handler's GetNode
RegisterGetNodeLocked(n) ==
    /\ n \in mu.readers
    /\ kPc[n] = "update"
    /\ LET node == KubeletNode(n)
           code == ClientUpdateNodeLookup(nodes, node)
       IN IF code # 0
          THEN /\ resp' = Response(n, "UpdateNode", <<n>>, code)
               /\ putReq' = putReq
               /\ kPc' = [kPc EXCEPT ![n] = "exited"]
          ELSE /\ resp' = Response(n, "UpdateNodeFound", <<n>>, 0)
               /\ putReq' = putReq \cup {NodePutRequest(n, node)}
               /\ kPc' = [kPc EXCEPT ![n] = "putNode"]
    /\ MuRUnlock(n)
    /\ UNCHANGED <<pods, nodes, nextNodeIndex, schedPc, pendingPods, readyNodes,
                   kPods, clientOps, restarts>>

\* NodePutWrite inside UpdateNode, for the PUT of the kubelet of n
NodePutWriteLocked(n) ==
    \E q \in putReq :
        /\ q.actor = n /\ q.kind = "node" /\ Latest(q)
        /\ mu.writer = n
        /\ kPc[n] = "putNode"
        /\ LET r == updateNodeHandlerGinWrite(nodes, q.body) IN
           /\ nodes' = r.nodes
           /\ resp' = Response(n, "UpdateNode", <<q.body.name>>, r.code)
           /\ kPc' = [kPc EXCEPT ![n] = IF r.code = 200 THEN "sleep"
                                        ELSE "exited"]
        /\ putReq' = putReq \ {q}
        /\ MuUnlock(n)
        /\ UNCHANGED <<pods, nextNodeIndex, schedPc, pendingPods, readyNodes,
                       kPods, clientOps, restarts>>

\* SyncList inside ListPods
SyncListLocked(n) ==
    /\ n \in mu.readers
    /\ kPc[n] = "sleep"
    /\ \E order \in Orderings(ClientListPods(pods, DefaultNamespace, "")) :
         /\ kPods' = [kPods EXCEPT ![n] = [i \in 1..Len(order) |-> pods[order[i]]]]
         /\ kPc' = [kPc EXCEPT ![n] = IF Len(order) = 0 THEN "sleep" ELSE "sync"]
    /\ resp' = Response(n, "ListPods", <<>>, 200)
    /\ MuRUnlock(n)
    /\ UNCHANGED <<putReq, pods, nodes, nextNodeIndex, schedPc, pendingPods, readyNodes,
                   clientOps, restarts>>

\* SyncUpdate inside the handler's GetPod
SyncGetPodLocked(n) ==
    /\ n \in mu.readers
    /\ kPc[n] = "sync"
    /\ LET pod == Head(kPods[n])
           updatedPod == [pod EXCEPT !.phase = SyncPhase(pod)]
           key == <<pod.namespace, pod.name>>
           code == ClientUpdatePodLookup(pods, updatedPod)
       IN /\ SyncMine(n, pod) /\ SyncPhase(pod) # ""
          /\ IF code # 0
             THEN /\ resp' = Response(n, "UpdatePod", key, code)
                  /\ putReq' = putReq
                  /\ SyncAdvance(n)
             ELSE /\ resp' = Response(n, "UpdatePodFound", key, 0)
                  /\ putReq' = putReq \cup {PutRequest(n, updatedPod)}
                  /\ kPc' = [kPc EXCEPT ![n] = "put"]
                  /\ kPods' = kPods
    /\ MuRUnlock(n)
    /\ UNCHANGED <<pods, nodes, nextNodeIndex, schedPc, pendingPods, readyNodes,
                   clientOps, restarts>>

\* the steps of the kubelet of n inside a method of the store
KubeletCritical(n) ==
    \/ RegisterCreateLocked(n)
    \/ RegisterGetNodeLocked(n)
    \/ NodePutWriteLocked(n)
    \/ SyncListLocked(n)
    \/ SyncGetPodLocked(n)
    \/ PutWriteLocked(n)

KubeletLocked(n) ==
    KubeletStart(n) \/ KubeletLock(n) \/ SyncSkip(n) \/ KubeletCritical(n)

\* the handler of a client's POST or DELETE of a Pod, or of its POST of a
\* Node, calls the store
ClientLock == clientOps > 0 /\ MuLock("client")

\* the bodies the client POSTs here
LockCreateBodies(name) ==
    {b \in CreatePodBodies(name) :
        /\ b.namespace = "default" /\ b.image = "nginx"
        /\ b.nodeName = "" /\ b.phase = PodPending}

\* ClientCreatePod inside CreatePod
ClientCreatePodLocked ==
    /\ mu.writer = "client"
    /\ clientOps > 0
    /\ \E key \in CreatePodKeys : \E body \in LockCreateBodies(key[2]) :
         LET r == createPodHandlerGin(pods, key[1], body) IN
         /\ pods' = r.pods
         /\ resp' = Response("client", "CreatePod", key, r.code)
    /\ clientOps' = clientOps - 1
    /\ MuUnlock("client")
    /\ UNCHANGED <<putReq, nodes, nextNodeIndex, schedPc, pendingPods, readyNodes,
                   kPc, kPods, restarts>>

\* ClientDeletePod inside DeletePod
ClientDeletePodLocked ==
    /\ mu.writer = "client"
    /\ clientOps > 0
    /\ \E key \in PodKeys :
         LET r == deletePodHandlerGin(pods, key[1], key[2]) IN
         /\ pods' = r.pods
         /\ resp' = Response("client", "DeletePod", key, r.code)
    /\ clientOps' = clientOps - 1
    /\ MuUnlock("client")
    /\ UNCHANGED <<putReq, nodes, nextNodeIndex, schedPc, pendingPods, readyNodes,
                   kPc, kPods, restarts>>

\* ClientCreateNode inside CreateNode, for the Node of a kubelet
ClientCreateNodeLocked ==
    /\ mu.writer = "client"
    /\ clientOps > 0
    /\ \E body \in {b \in CreateNodeBodies : b.name \in ClientKubelets} :
         LET r == createNodeHandlerGin(nodes, body) IN
         /\ nodes' = r.nodes
         /\ resp' = Response("client", "CreateNode", <<body.name>>, r.code)
    /\ clientOps' = clientOps - 1
    /\ MuUnlock("client")
    /\ UNCHANGED <<putReq, pods, nextNodeIndex, schedPc, pendingPods, readyNodes,
                   kPc, kPods, restarts>>

\* the steps of the client's handlers inside a method of the store
ClientCritical ==
    \/ ClientCreatePodLocked
    \/ ClientDeletePodLocked
    \/ ClientCreateNodeLocked

NextLock ==
    \/ ClientLock
    \/ ClientCritical
    \/ SchedulerLocked
    \/ \E n \in ClientKubelets : KubeletLocked(n)

\* sync.RWMutex lets no caller of Lock or RLock wait for ever while the
\* lock keeps being given back, and a method that holds the lock runs on
SpecLock ==
    /\ Init
    /\ [][NextLock]_vars
    /\ SF_vars(SchedulerLocked)
    /\ \A n \in ClientKubelets : SF_vars(KubeletLocked(n))
    /\ WF_vars(ClientCritical)

(***************************************************************************)
(* What the claims need to name                                            *)
(***************************************************************************)
Loops == {"scheduler"} \cup Kubelets

\* the step just taken was a PUT of a Pod by a loop that the server accepted
LoopWriteAccepted ==
    /\ resp'.actor \in Loops
    /\ resp'.op = "UpdatePod"
    /\ resp'.code = 200

\* the listed Pod the loop built the body of that PUT from
Observed ==
    IF resp'.actor = "scheduler" THEN Head(pendingPods)
    ELSE Head(kPods[resp'.actor])

TerminalPhases == {PodDeleted, PodSucceeded, PodFailed}

\* the requests that address one Pod
PodRequests == {"CreatePod", "UpdatePod", "UpdatePodFound", "DeletePod"}

\* the key of the store for the namespace and the name of a request
KeyOf(k) == podKey(k[1], k[2])

\* the key of the store the step just taken addressed, "" when it addressed
\* no Pod
RespKey == IF Len(resp.key) = 2 THEN KeyOf(resp.key) ELSE ""

\* the keys under which a client can store a Pod of the loops' namespace
DefaultKeys == {KeyOf(k) : k \in {c \in CreatePodKeys : c[1] = DefaultNamespace}}

(***************************************************************************)
(* C1: an update built from a stale observation of a Pod is never accepted *)
(* over a write that was accepted in between: whenever a PUT of a loop is  *)
(* accepted, the stored Pod is still the Pod the loop had listed.          *)
(***************************************************************************)
C1_NoStaleOverwrite ==
    [][LoopWriteAccepted => pods[RespKey'] = Observed]_vars

(***************************************************************************)
(* C2: every stored Pod carries a resourceVersion.                         *)
(***************************************************************************)
C2_ResourceVersion ==
    \A k \in DOMAIN pods : "resourceVersion" \in DOMAIN pods[k]

(***************************************************************************)
(* C3: a Pod's nodeName, once non-empty, never takes a different value     *)
(* while the Pod is stored.                                                *)
(***************************************************************************)
C3_NoRebinding ==
    [][\A k \in DOMAIN pods \cap DOMAIN pods' :
          pods[k].nodeName # "" => pods'[k].nodeName = pods[k].nodeName]_vars

(***************************************************************************)
(* C4: once a stored Pod has deletionTimestamp set, every later state of   *)
(* that record has it set.                                                 *)
(***************************************************************************)
C4_DeletionTimestampMonotonic ==
    [][\A k \in DOMAIN pods \cap DOMAIN pods' :
          pods[k].deletionTimestamp # nil => pods'[k].deletionTimestamp # nil]_vars

(***************************************************************************)
(* C5: no accepted write of the scheduler or of a kubelet leaves a Pod in  *)
(* phase Pending, Scheduled or Running when the stored Pod carried a       *)
(* deletionTimestamp immediately before the write.                         *)
(***************************************************************************)
C5_NoResurrection ==
    [][(LoopWriteAccepted /\ pods[RespKey'].deletionTimestamp # nil)
          => pods'[RespKey'].phase \notin {PodPending, PodScheduled, PodRunning}]_vars

(***************************************************************************)
(* C6: no accepted write of the scheduler or of a kubelet changes the      *)
(* phase of a Pod whose stored phase immediately before the write is       *)
(* Deleted, Succeeded or Failed.                                           *)
(***************************************************************************)
C6_TerminalIsFinal ==
    [][(LoopWriteAccepted /\ pods[RespKey'].phase \in TerminalPhases)
          => pods'[RespKey'].phase = pods[RespKey'].phase]_vars

(***************************************************************************)
(* C7: for a listed Pod with deletionTimestamp set, the scheduler's loop   *)
(* iteration issues no request, leaves the store unchanged and does not    *)
(* advance the round-robin cursor, whatever the Pod's phase.               *)
(***************************************************************************)
C7_SchedulerSkipsDeleted ==
    [][(/\ schedPc = "assign"
        /\ resp'.actor = "scheduler"
        /\ Head(pendingPods).deletionTimestamp # nil)
          => /\ resp'.op = "skip"
             /\ pendingPods' = Tail(pendingPods)
             /\ putReq' = putReq
             /\ pods' = pods
             /\ nextNodeIndex' = nextNodeIndex]_vars

\* the scheduler has just skipped a listed Pod that is still stored as
\* Pending with deletionTimestamp set, with a Ready Node at hand
C7_Witness ==
    /\ resp.actor = "scheduler"
    /\ resp.op = "skip"
    /\ RespKey \in DOMAIN pods
    /\ pods[RespKey].phase = PodPending
    /\ pods[RespKey].deletionTimestamp # nil
    /\ ClientListNodes(nodes, NodeReady) # {}

(***************************************************************************)
(* C8: with the scheduler and the kubelets cycling and a client that only  *)
(* creates, a Pod created without deletionTimestamp eventually is Running  *)
(* on a registered Node whose kubelet runs; and one cycle of each loop is  *)
(* enough, because every PUT of the scheduler is accepted and stores       *)
(* Scheduled and every PUT of a kubelet is accepted and stores Running.    *)
(***************************************************************************)
C8_Converges ==
    /\ \A k \in DefaultKeys :
         (k \in DOMAIN pods /\ pods[k].deletionTimestamp = nil)
           ~> (/\ k \in DOMAIN pods
               /\ pods[k].phase = PodRunning
               /\ pods[k].nodeName \in DOMAIN nodes
               /\ nodes[pods[k].nodeName].status = NodeReady
               /\ kPc[pods[k].nodeName] \in {"sleep", "sync"})
    /\ [](resp.op = "UpdatePod" =>
            /\ resp.code = 200
            /\ pods[RespKey].phase =
                 IF resp.actor = "scheduler" THEN PodScheduled ELSE PodRunning
            /\ resp.actor \in Kubelets => pods[RespKey].nodeName = resp.actor)

(***************************************************************************)
(* C9: a scheduler cycle that found a Ready Node handles every Pod of its  *)
(* listing before it ends, issuing a PUT for each listed Pod that has no   *)
(* deletionTimestamp; and without client interference every Pending,       *)
(* unbound Pod without deletionTimestamp eventually is Scheduled with a    *)
(* non-empty nodeName.                                                     *)
(***************************************************************************)
C9_AllEligibleScheduled ==
    /\ \A k \in DefaultKeys :
         (/\ k \in DOMAIN pods
          /\ pods[k].phase = PodPending /\ pods[k].nodeName = ""
          /\ pods[k].deletionTimestamp = nil)
           ~> (k \in DOMAIN pods /\ pods[k].phase = PodScheduled /\ pods[k].nodeName # "")
    /\ [][(schedPc = "assign" /\ schedPc' = "sleep") => Len(pendingPods) = 1]_vars
    /\ [][(/\ schedPc = "assign" /\ resp'.actor = "scheduler"
           /\ Head(pendingPods).deletionTimestamp = nil)
            => /\ resp'.op \in {"UpdatePod", "UpdatePodFound"}
               /\ resp'.key = <<Head(pendingPods).namespace, Head(pendingPods).name>>
               /\ (/\ RespKey' \in DOMAIN pods
                   /\ pods[RespKey'] = Head(pendingPods)) => resp'.op = "UpdatePodFound"]_vars

(***************************************************************************)
(* C10: right after an accepted DELETE of a Pod, a Get of its key still    *)
(* returns the Pod, with deletionTimestamp set.                            *)
(***************************************************************************)
C10_SoftDelete ==
    (resp.actor = "client" /\ resp.op = "DeletePod" /\ resp.code = 200)
        => LET got == getPodHandlerGin(pods, resp.key[1], resp.key[2]) IN
           got.code = 200 /\ got.pod.deletionTimestamp # nil

(***************************************************************************)
(* C11: with the kubelet of Node N cycling and no record removed, a Pod of *)
(* the loops' namespace that is bound to N and has deletionTimestamp set   *)
(* while its phase is not Succeeded, Failed or Deleted eventually has      *)
(* phase Deleted.                                                          *)
(***************************************************************************)
C11_EventuallyDeleted ==
    \A k \in DefaultKeys : \A n \in ClientKubelets :
        (/\ k \in DOMAIN pods
         /\ pods[k].nodeName = n
         /\ pods[k].deletionTimestamp # nil
         /\ pods[k].phase \notin TerminalPhases)
          ~> (k \notin DOMAIN pods \/ pods[k].phase = PodDeleted)

(***************************************************************************)
(* C12: a stored Pod that is Pending with an empty nodeName and has        *)
(* deletionTimestamp set is left as it is by every step of the scheduler   *)
(* and of a kubelet.                                                       *)
(***************************************************************************)
C12_UnboundMarkedUntouched ==
    [][\A k \in DOMAIN pods :
          (/\ resp'.actor \in Loops
           /\ pods[k].phase = PodPending
           /\ pods[k].nodeName = ""
           /\ pods[k].deletionTimestamp # nil)
            => (k \in DOMAIN pods' /\ pods'[k] = pods[k])]_vars

(***************************************************************************)
(* C13: a registration (POST of the Node, PUT when the POST fails) always  *)
(* succeeds, whatever record of that name is stored, and when it ends the  *)
(* store holds under that name the Node of the registration's payload,     *)
(* with its address and its status, and no record under any other name was *)
(* added or changed.                                                       *)
(***************************************************************************)
C13_RegistrationIdempotent ==
    /\ [][\A n \in Kubelets :
            (/\ kPc[n] \in {"register", "update", "putNode"}
             /\ kPc'[n] \notin {"register", "update", "putNode"})
              => /\ kPc'[n] = "sleep"
                 /\ DOMAIN nodes' = DOMAIN nodes \cup {n}
                 /\ nodes'[n] = KubeletNode(n)
                 /\ \A o \in DOMAIN nodes \ {n} : nodes'[o] = nodes[o]]_vars
    /\ [][\A n \in Kubelets :
            (kPc[n] = "register" /\ kPc'[n] = "update") => nodes' = nodes]_vars

(***************************************************************************)
(* C14: a Pod is stored under the namespace and name of its record, so the *)
(* listing of a namespace is exactly the Pods created under it; a create   *)
(* of a key that is not stored succeeds whatever other namespaces hold,    *)
(* the same name included; and a create, update or delete addressed to one *)
(* namespace leaves every Pod of every other namespace as it is.           *)
(***************************************************************************)
C14_NamespaceIsolation ==
    /\ [](\A k \in DOMAIN pods : podKey(pods[k].namespace, pods[k].name) = k)
    /\ [](\A namespace \in Namespaces :
            ListPods(pods, namespace)
              = {k \in DOMAIN pods : \E name \in PodNames : k = podKey(namespace, name)})
    /\ [][(resp'.op = "CreatePod" /\ RespKey' \notin DOMAIN pods)
            => (resp'.code = 201 /\ RespKey' \in DOMAIN pods')]_vars
    /\ [][resp'.op \in PodRequests
            => \A k \in DOMAIN pods :
                 pods[k].namespace # resp'.key[1]
                   => (k \in DOMAIN pods' /\ pods'[k] = pods[k])]_vars

\* Pods of the same name were created in two namespaces and the one of
\* "default" has just been deleted: the one of "other" is stored and listed
C14_Witness ==
    /\ resp.op = "DeletePod"
    /\ resp.code = 200
    /\ resp.key = <<"default", "p1">>
    /\ podKey("default", "p1") \notin DOMAIN pods
    /\ podKey("other", "p1") \in DOMAIN pods
    /\ ListPods(pods, "default") = {}
    /\ ListPods(pods, "other") = {podKey("other", "p1")}

(***************************************************************************)
(* C15: a create of a key that is stored fails (the store's "already       *)
(* exists" error, answered with status 500) and leaves the whole store,    *)
(* the stored Pod included, as it is; a create of a key that is not stored *)
(* succeeds and adds that key only.  So of several creates of one key,     *)
(* in whatever order they reach the store, exactly the first succeeds.     *)
(***************************************************************************)
C15_DuplicateCreateFails ==
    [][resp'.op = "CreatePod"
         => IF RespKey' \in DOMAIN pods
            THEN resp'.code = 500 /\ pods' = pods
            ELSE /\ resp'.code = 201
                 /\ DOMAIN pods' = DOMAIN pods \cup {RespKey'}
                 /\ \A k \in DOMAIN pods : pods'[k] = pods[k]]_vars

\* a create of a stored key has just failed, the stored Pod being bound and
\* past Pending
C15_Witness ==
    /\ resp.op = "CreatePod"
    /\ resp.code = 500
    /\ RespKey \in DOMAIN pods
    /\ pods[RespKey].phase \in {PodScheduled, PodRunning}
    /\ pods[RespKey].nodeName = "n1"

(***************************************************************************)
(* C16: every accepted create stores the Pod under the namespace of the    *)
(* path with phase Pending and an empty nodeName, whatever namespace,      *)
(* phase and nodeName the body carried, and answers with the Pod as it is  *)
(* stored.                                                                 *)
(***************************************************************************)
C16_CreateStoresPending ==
    [][(resp'.op = "CreatePod" /\ resp'.code = 201)
         => /\ RespKey' \notin DOMAIN pods
            /\ pods'[RespKey'].phase = PodPending
            /\ pods'[RespKey'].nodeName = ""
            /\ pods'[RespKey'].namespace = resp'.key[1]
            /\ pods'[RespKey'].name = resp'.body.name
            /\ pods'[RespKey'].image = resp'.body.image
            /\ pods'[RespKey'].deletionTimestamp = resp'.body.deletionTimestamp
            /\ createPodHandlerGin(pods, resp'.key[1], resp'.body).pod
                 = pods'[RespKey']]_vars

\* a Pod was just created from a body that carried another namespace, phase
\* Running and a nodeName, and is stored Pending and unbound
C16_Witness ==
    /\ resp.op = "CreatePod"
    /\ resp.code = 201
    /\ resp.body.namespace # resp.key[1]
    /\ resp.body.phase = PodRunning
    /\ resp.body.nodeName = "n1"
    /\ pods[RespKey].phase = PodPending
    /\ pods[RespKey].nodeName = ""
    /\ pods[RespKey].namespace = resp.key[1]

(***************************************************************************)
(* C17: a PUT of a Pod whose key is not stored, of a client, of the        *)
(* scheduler or of a kubelet, is answered with status 404 and leaves the   *)
(* Pods as they are, whether the key is missing when the request arrives   *)
(* or is removed while the handler works on it; and no step of a PUT adds  *)
(* a key to the store, so a Pod removed after a loop listed it is not      *)
(* stored again by the loop's PUT.                                         *)
(***************************************************************************)
C17_UpdateAbsentFails ==
    /\ [][(resp'.op \in {"UpdatePod", "UpdatePodFound"} /\ RespKey' \notin DOMAIN pods)
            => /\ resp'.op = "UpdatePod"
               /\ resp'.code = 404
               /\ pods' = pods]_vars
    /\ [][resp'.op \in {"UpdatePod", "UpdatePodFound"}
            => DOMAIN pods' = DOMAIN pods]_vars

(***************************************************************************)
(* C18: the scheduler issues a PUT for a Pod of its listing only if the    *)
(* listed Pod has phase Pending, an empty nodeName and no                  *)
(* deletionTimestamp.                                                      *)
(***************************************************************************)
C18_BindsOnlyEligible ==
    [][(resp'.actor = "scheduler" /\ resp'.op \in {"UpdatePod", "UpdatePodFound"})
         => /\ Head(pendingPods).phase = PodPending
            /\ Head(pendingPods).nodeName = ""
            /\ Head(pendingPods).deletionTimestamp = nil]_vars

(***************************************************************************)
(* C19: the node listing a scheduler cycle works with is the stored Nodes  *)
(* whose status is Ready when they are listed, and every Node the          *)
(* scheduler selects, so every nodeName it writes, is the name of a Node   *)
(* of that listing.                                                        *)
(***************************************************************************)
C19_OnlyReadyNodes ==
    /\ [][(resp'.actor = "scheduler" /\ resp'.op = "ListNodes")
            => {readyNodes'[i] : i \in 1..Len(readyNodes')}
                 = {nodes[n] : n \in {m \in DOMAIN nodes : nodes[m].status = NodeReady}}]_vars
    /\ [](\A i \in 1..Len(readyNodes) : readyNodes[i].status = NodeReady)
    /\ [][(resp'.actor = "scheduler" /\ schedPc = "assign"
           /\ resp'.op \in {"UpdatePod", "UpdatePodFound"})
            => /\ SelectNode(readyNodes, nextNodeIndex).status = NodeReady
               /\ \A q \in putReq' \ putReq :
                    q.body.nodeName = SelectNode(readyNodes, nextNodeIndex).name]_vars
    /\ [][(resp'.actor = "scheduler" /\ resp'.op = "UpdatePod" /\ resp'.code = 200)
            => \E i \in 1..Len(readyNodes) :
                 pods'[RespKey'].nodeName = readyNodes[i].name]_vars

\* the scheduler has just bound a Pod to n1 while n2 is stored with status
\* NotReady
C19_Witness ==
    /\ resp.actor = "scheduler"
    /\ resp.op = "UpdatePod"
    /\ resp.code = 200
    /\ pods[RespKey].nodeName = "n1"
    /\ "n2" \in DOMAIN nodes
    /\ nodes["n2"].status = NodeNotReady

\* the Node names in their order
NodeNameOrder == <<"n1", "n2">>

\* the names of the listed Nodes in the order of the names
ByName(listed) ==
    SelectSeq(NodeNameOrder,
              LAMBDA name : \E i \in 1..Len(listed) : listed[i].name = name)

(***************************************************************************)
(* C20: the k-th Node selection of the scheduler process (k its cursor,    *)
(* counted from 0 and never reset) goes to position k mod n of the Ready   *)
(* Nodes of the cycle's listing taken in the order of their names.         *)
(***************************************************************************)
C20_RoundRobinByName ==
    /\ [][nextNodeIndex' >= nextNodeIndex]_vars
    /\ [][(resp'.actor = "scheduler" /\ schedPc = "assign"
           /\ resp'.op \in {"UpdatePod", "UpdatePodFound"})
            => /\ nextNodeIndex' = nextNodeIndex + 1
               /\ SelectNode(readyNodes, nextNodeIndex).name
                    = ByName(readyNodes)[(nextNodeIndex % Len(readyNodes)) + 1]]_vars

(***************************************************************************)
(* C21: a scheduler cycle that lists no Pending Pod ends there, and a      *)
(* cycle that lists no Ready Node ends there: neither issues a PUT, the    *)
(* store and the cursor stay as they are, and the scheduler reaches its    *)
(* loop over the Pods only with a Pod and a Node listed.                   *)
(***************************************************************************)
C21_EmptyListingNoOp ==
    /\ [][(resp'.actor = "scheduler" /\ resp'.op = "ListPods"
           /\ ClientListPods(pods, DefaultNamespace, PodPending) = {})
            => /\ schedPc' = "sleep"
               /\ pods' = pods /\ nodes' = nodes
               /\ nextNodeIndex' = nextNodeIndex]_vars
    /\ [][(resp'.actor = "scheduler" /\ resp'.op = "ListNodes"
           /\ ClientListNodes(nodes, NodeReady) = {})
            => /\ schedPc' = "sleep"
               /\ pendingPods' = <<>>
               /\ pods' = pods /\ nodes' = nodes
               /\ nextNodeIndex' = nextNodeIndex]_vars
    /\ [](schedPc = "assign" => (pendingPods # <<>> /\ readyNodes # <<>>))
    /\ [][(resp'.actor = "scheduler" /\ resp'.op \in {"UpdatePod", "UpdatePodFound"})
            => (schedPc = "assign" \/ (schedPc = "put" /\ resp'.op = "UpdatePod"))]_vars
    /\ [](schedPc = "put" => (pendingPods # <<>> /\ readyNodes # <<>>))

\* a cycle has just ended at its node listing, with a Pending Pod stored and
\* a Node stored that is not Ready
C21_Witness ==
    /\ resp.actor = "scheduler"
    /\ resp.op = "ListNodes"
    /\ schedPc = "sleep"
    /\ ClientListPods(pods, DefaultNamespace, PodPending) # {}
    /\ DOMAIN nodes # {}
    /\ ClientListNodes(nodes, NodeReady) = {}

(***************************************************************************)
(* C22: with a client that only creates, a stored Pod that is Scheduled or *)
(* Running has a nodeName and a stored Pod that is Pending has none; the   *)
(* scheduler's accepted PUT stores the nodeName together with the phase    *)
(* Scheduled.                                                              *)
(***************************************************************************)
C22_PhaseAgreesWithBinding ==
    /\ [](\A k \in DOMAIN pods :
            /\ pods[k].phase \in {PodScheduled, PodRunning} => pods[k].nodeName # ""
            /\ pods[k].phase = PodPending => pods[k].nodeName = "")
    /\ [][(resp'.actor = "scheduler" /\ resp'.op = "UpdatePod" /\ resp'.code = 200)
            => /\ pods[RespKey'].phase = PodPending
               /\ pods[RespKey'].nodeName = ""
               /\ pods'[RespKey'].phase = PodScheduled
               /\ pods'[RespKey'].nodeName # ""]_vars

\* one Pod is Running and bound, the other has just been bound by the
\* scheduler, and a Pod of another namespace is Pending and unbound
C22_Witness ==
    /\ resp.actor = "scheduler"
    /\ resp.op = "UpdatePod"
    /\ resp.code = 200
    /\ pods[RespKey].phase = PodScheduled
    /\ pods[RespKey].nodeName = "n1"
    /\ \E k \in DOMAIN pods : pods[k].phase = PodRunning /\ pods[k].nodeName = "n1"

\* the step just taken was a PUT of a Pod by the loop actor that was refused
LoopWriteRefused(actor) ==
    /\ resp'.actor = actor
    /\ resp'.op = "UpdatePod"
    /\ resp'.code # 200

(***************************************************************************)
(* C23: a refused PUT does not stop a loop.  The scheduler and a kubelet   *)
(* go on after a refused PUT as after an accepted one, to the next Pod of  *)
(* the listing or to the sleep when it was the last; a loop that sleeps    *)
(* holds no listing, and its next cycle starts from the Pods stored then;  *)
(* after a refused PUT the loop lists again (the scheduler as long as its  *)
(* cursor is below MaxCursor).                                             *)
(***************************************************************************)
C23_RefusedWriteDoesNotStop ==
    /\ [][LoopWriteRefused("scheduler")
            => /\ pendingPods' = Tail(pendingPods)
               /\ schedPc' = IF pendingPods' = <<>> THEN "sleep" ELSE "assign"]_vars
    /\ [][\A n \in ClientKubelets :
            LoopWriteRefused(n)
            => /\ kPods'[n] = Tail(kPods[n])
               /\ kPc'[n] = IF kPods'[n] = <<>> THEN "sleep" ELSE "sync"]_vars
    /\ [](schedPc = "sleep" => pendingPods = <<>>)
    /\ [](\A n \in ClientKubelets : kPc[n] = "sleep" => kPods[n] = <<>>)
    /\ [][(resp'.actor = "scheduler" /\ resp'.op = "ListPods")
            => {pendingPods'[i] : i \in 1..Len(pendingPods')}
                 = {pods[k] : k \in ClientListPods(pods, DefaultNamespace, PodPending)}]_vars
    /\ [][\A n \in ClientKubelets :
            (resp'.actor = n /\ resp'.op = "ListPods")
            => {kPods'[n][i] : i \in 1..Len(kPods'[n])}
                 = {pods[k] : k \in ClientListPods(pods, DefaultNamespace, "")}]_vars
    /\ (resp.actor = "scheduler" /\ resp.op = "UpdatePod" /\ resp.code # 200)
          ~> \/ resp.actor = "scheduler" /\ resp.op = "ListPods"
             \/ nextNodeIndex = MaxCursor
    /\ \A n \in ClientKubelets :
          (resp.actor = n /\ resp.op = "UpdatePod" /\ resp.code # 200)
            ~> (resp.actor = n /\ resp.op = "ListPods")

\* the scheduler's PUT of a Pod removed after the handler found it was
\* refused, and the scheduler is at the next Pod of its listing
C23_Witness ==
    /\ resp.actor = "scheduler"
    /\ resp.op = "UpdatePod"
    /\ resp.code = 500
    /\ RespKey \notin DOMAIN pods
    /\ schedPc = "assign"
    /\ pendingPods # <<>>
    /\ podKey(Head(pendingPods).namespace, Head(pendingPods).name) \in DOMAIN pods

\* the step just taken was an iteration of syncPods of the kubelet of n, up
\* to the answer of the router or of the handler's GetPod when it sends a PUT
SyncIteration(n) ==
    /\ resp'.actor = n
    /\ kPc[n] = "sync"
    /\ resp'.op \in {"UpdatePod", "UpdatePodFound", "skip"}

\* the step just taken was the handler's UpdatePod for the PUT of the
\* kubelet of n, and its answer
SyncWrite(n) == resp'.actor = n /\ kPc[n] = "put" /\ resp'.op = "UpdatePod"

\* the step just taken has added the PUT of body by actor to the requests
\* in the server
Sent(actor, body) ==
    /\ PutRequest(actor, body) \notin putReq
    /\ putReq' = putReq \cup {PutRequest(actor, body)}

(***************************************************************************)
(* C24: the kubelet of Node n sends a PUT only for a Pod whose nodeName in *)
(* its listing is n; an iteration on a Pod listed unbound or bound to      *)
(* another Node changes no record, and a step of the kubelet changes no    *)
(* Pod but the one of its iteration.                                       *)
(***************************************************************************)
C24_WritesOwnPodsOnly ==
    /\ [][\A n \in ClientKubelets :
            (SyncIteration(n) \/ SyncWrite(n))
            => /\ resp'.key = <<Head(kPods[n]).namespace, Head(kPods[n]).name>>
               /\ resp'.op # "skip" => Head(kPods[n]).nodeName = n
               /\ Head(kPods[n]).nodeName # n => (pods' = pods /\ putReq' = putReq)]_vars
    /\ [][\A n \in ClientKubelets :
            (resp'.actor = n /\ resp'.op \in {"UpdatePod", "UpdatePodFound", "skip"})
            => (SyncIteration(n) \/ SyncWrite(n))]_vars
    /\ [][\A n \in ClientKubelets :
            (resp'.actor = n /\ pods' # pods)
            => /\ SyncWrite(n)
               /\ DOMAIN pods' = DOMAIN pods
               /\ \A k \in DOMAIN pods : pods'[k] # pods[k] => k = RespKey']_vars

\* the kubelet of n1 has passed over a Pod that is Scheduled on n2 and would
\* be started by the kubelet of its Node
C24_Witness ==
    /\ resp.actor = "n1"
    /\ resp.op = "skip"
    /\ RespKey \in DOMAIN pods
    /\ pods[RespKey].nodeName = "n2"
    /\ pods[RespKey].phase = PodScheduled
    /\ pods[RespKey].deletionTimestamp = nil

\* the listed Pod of the kubelet's iteration
SyncPod(n) == Head(kPods[n])

(***************************************************************************)
(* C25: for a Pod listed with the kubelet's Node as nodeName and with a    *)
(* deletionTimestamp, the kubelet PUTs the listed Pod with phase Deleted   *)
(* when the listed phase is Pending, Scheduled, Running, Terminating or    *)
(* Deleting, and sends nothing when it is Succeeded, Failed or Deleted.    *)
(***************************************************************************)
C25_MarkedPodDeleted ==
    /\ [][\A n \in ClientKubelets :
            (/\ SyncIteration(n)
             /\ SyncPod(n).nodeName = n
             /\ SyncPod(n).deletionTimestamp # nil)
            => IF SyncPod(n).phase \in {PodSucceeded, PodFailed, PodDeleted}
               THEN resp'.op = "skip" /\ pods' = pods /\ putReq' = putReq
               ELSE /\ SyncPod(n).phase \in {PodPending, PodScheduled, PodRunning,
                                              PodTerminating, PodDeleting}
                    /\ resp'.op # "skip"
                    /\ resp'.op = "UpdatePodFound"
                         => Sent(n, [SyncPod(n) EXCEPT !.phase = PodDeleted])]_vars
    /\ [][\A n \in ClientKubelets :
            (SyncWrite(n) /\ resp'.code = 200 /\ SyncPod(n).deletionTimestamp # nil)
            => pods' = MapPut(pods, RespKey',
                              [SyncPod(n) EXCEPT !.phase = PodDeleted])]_vars

\* a Pod of n1 with a deletionTimestamp is now Deleted by the kubelet's PUT
C25_Witness ==
    /\ resp.actor = "n1"
    /\ resp.op = "UpdatePod"
    /\ resp.code = 200
    /\ pods[RespKey].phase = PodDeleted
    /\ pods[RespKey].deletionTimestamp # nil
    /\ pods[RespKey].nodeName = "n1"

(***************************************************************************)
(* C26: for a Pod listed with the kubelet's Node as nodeName and without   *)
(* deletionTimestamp, the kubelet PUTs the listed Pod with phase Running   *)
(* when the listed phase is Scheduled, and sends nothing when it is        *)
(* Running, Pending, Succeeded, Failed or Deleted.                         *)
(***************************************************************************)
C26_ScheduledPodStarted ==
    /\ [][\A n \in ClientKubelets :
            (/\ SyncIteration(n)
             /\ SyncPod(n).nodeName = n
             /\ SyncPod(n).deletionTimestamp = nil)
            => /\ SyncPod(n).phase = PodScheduled
                    => /\ resp'.op # "skip"
                       /\ resp'.op = "UpdatePodFound"
                            => Sent(n, [SyncPod(n) EXCEPT !.phase = PodRunning])
               /\ SyncPod(n).phase \in {PodRunning, PodPending, PodSucceeded,
                                         PodFailed, PodDeleted}
                    => resp'.op = "skip" /\ pods' = pods /\ putReq' = putReq]_vars
    /\ [][\A n \in ClientKubelets :
            (/\ SyncWrite(n) /\ resp'.code = 200
             /\ SyncPod(n).deletionTimestamp = nil
             /\ SyncPod(n).phase = PodScheduled)
            => pods' = MapPut(pods, RespKey',
                              [SyncPod(n) EXCEPT !.phase = PodRunning])]_vars

\* the kubelet has started a Pod of n1
C26_Witness ==
    /\ resp.actor = "n1"
    /\ resp.op = "UpdatePod"
    /\ resp.code = 200
    /\ pods[RespKey].phase = PodRunning
    /\ pods[RespKey].nodeName = "n1"
    /\ pods[RespKey].deletionTimestamp = nil

(***************************************************************************)
(* C27: in one cycle the kubelet sends at most one PUT for a Pod.  A       *)
(* listing holds a Pod once; one iteration sends the PUTs of SyncWrites,   *)
(* which are at most one; for a Pod with a deletionTimestamp they are      *)
(* those of the deletionTimestamp branch alone, also when its phase is     *)
(* Terminating or Deleting.                                                *)
(***************************************************************************)
C27_OneWritePerPod ==
    /\ [](\A n \in ClientKubelets : \A i, j \in 1..Len(kPods[n]) :
            (kPods[n][i].namespace = kPods[n][j].namespace
               /\ kPods[n][i].name = kPods[n][j].name) => i = j)
    /\ [][\A n \in ClientKubelets :
            (SyncIteration(n) /\ SyncPod(n).nodeName = n)
            => /\ Len(SyncWrites(SyncPod(n))) <= 1
               /\ SyncPod(n).deletionTimestamp # nil
                    => SyncWrites(SyncPod(n)) = SyncDeletionBranch(SyncPod(n))
               /\ resp'.op = "skip" <=> SyncWrites(SyncPod(n)) = <<>>
               /\ pods' = pods
               /\ resp'.op = "UpdatePod" => putReq' = putReq
               /\ resp'.op = "UpdatePodFound"
                    => Sent(n, [SyncPod(n) EXCEPT
                                  !.phase = SyncWrites(SyncPod(n))[1]])
               /\ resp'.op # "UpdatePodFound" => kPods'[n] = Tail(kPods[n])]_vars
    /\ [][\A n \in ClientKubelets :
            (resp'.actor = n /\ kPc[n] = "put")
            => /\ SyncWrite(n)
               /\ LET body == [SyncPod(n) EXCEPT
                                 !.phase = SyncWrites(SyncPod(n))[1]]
                  IN /\ putReq' = putReq \ {PutRequest(n, body)}
                     /\ pods' = updatePodHandlerGinWrite(pods, body).pods
               /\ kPods'[n] = Tail(kPods[n])
               /\ kPc'[n] \in {"sync", "sleep"}]_vars

\* the cycle of n1 has ended with the one PUT, as Deleted, of a Pod that
\* has a deletionTimestamp
C27_Witness ==
    /\ resp.actor = "n1"
    /\ resp.op = "UpdatePod"
    /\ resp.code = 200
    /\ pods[RespKey].phase = PodDeleted
    /\ pods[RespKey].deletionTimestamp # nil
    /\ kPc["n1"] = "sleep"
    /\ kPods["n1"] = <<>>

(***************************************************************************)
(* C28: a Pod listed with the kubelet's Node as nodeName, without          *)
(* deletionTimestamp and with phase Terminating or Deleting is PUT by the  *)
(* kubelet with phase Deleted, and whenever the kubelet's PUT changes the  *)
(* phase of a Pod listed as terminating (with a deletionTimestamp, or      *)
(* Terminating, or Deleting) the new phase is Deleted.                     *)
(***************************************************************************)
C28_TerminatingToDeleted ==
    /\ [][\A n \in ClientKubelets :
            (/\ SyncIteration(n)
             /\ SyncPod(n).nodeName = n
             /\ SyncPod(n).deletionTimestamp = nil
             /\ SyncPod(n).phase \in {PodTerminating, PodDeleting})
            => /\ resp'.op # "skip"
               /\ resp'.op = "UpdatePodFound"
                    => Sent(n, [SyncPod(n) EXCEPT !.phase = PodDeleted])]_vars
    /\ [][\A n \in ClientKubelets :
            (/\ SyncWrite(n) /\ resp'.code = 200
             /\ \/ SyncPod(n).deletionTimestamp # nil
                \/ SyncPod(n).phase \in {PodTerminating, PodDeleting})
            => pods'[RespKey'].phase = PodDeleted]_vars

(***************************************************************************)
(* C29: whenever a stored Pod comes to phase Running, the step is a PUT of *)
(* a kubelet for that Pod, and the Pod stored before the step has phase    *)
(* Scheduled and that kubelet's Node as nodeName.                          *)
(***************************************************************************)
C29_RunningOnlyFromScheduled ==
    [][\A k \in DOMAIN pods' :
         (/\ pods'[k].phase = PodRunning
          /\ k \in DOMAIN pods => pods[k].phase # PodRunning)
         => /\ resp'.actor \in Kubelets
            /\ resp'.op = "UpdatePod"
            /\ RespKey' = k
            /\ k \in DOMAIN pods
            /\ pods[k].phase = PodScheduled
            /\ pods[k].nodeName = resp'.actor]_vars

\* the positions of a kubelet inside its loop around syncPods
SyncPositions == {"sleep", "sync", "put"}

(***************************************************************************)
(* C30: a kubelet is in its sync loop only with its Node stored: every     *)
(* listing, iteration and PUT of the kubelet of n happens with a Node n in *)
(* the store; the loop is entered only by an accepted POST or PUT of the   *)
(* Node; when the PUT that follows a failed POST fails too the process     *)
(* exits, from where it does nothing more, having never been in the loop.  *)
(***************************************************************************)
C30_SyncOnlyAfterRegistration ==
    /\ [](\A n \in ClientKubelets : kPc[n] \in SyncPositions => n \in DOMAIN nodes)
    /\ [][\A n \in ClientKubelets :
            (resp'.actor = n
               /\ resp'.op \in {"ListPods", "UpdatePod", "UpdatePodFound", "skip"})
            => /\ kPc[n] \in SyncPositions
               /\ n \in DOMAIN nodes]_vars
    /\ [][\A n \in ClientKubelets :
            (kPc'[n] \in SyncPositions /\ kPc[n] \notin SyncPositions)
            => /\ resp'.actor = n
               /\ \/ kPc[n] = "register" /\ resp'.op = "CreateNode" /\ resp'.code = 201
                  \/ kPc[n] = "putNode" /\ resp'.op = "UpdateNode" /\ resp'.code = 200
               /\ n \in DOMAIN nodes']_vars
    /\ [][\A n \in ClientKubelets :
            (/\ resp'.actor = n
             /\ \/ resp'.op = "UpdateNodeFailed"
                \/ resp'.op = "UpdateNode" /\ resp'.code # 200)
            => kPc[n] \in {"update", "putNode"} /\ kPc'[n] = "exited"]_vars
    /\ [][\A n \in ClientKubelets :
            /\ kPc[n] = "exited" => kPc'[n] = "exited"
            /\ kPc'[n] = "exited" => kPc[n] \in {"update", "putNode", "exited"}
            /\ kPc'[n] = "putNode" => kPc[n] \in {"update", "putNode"}
            /\ kPc'[n] = "update" => kPc[n] \in {"register", "update"}
            /\ kPc'[n] = "register" => kPc[n] \in {"off", "register"}]_vars

\* the kubelet of n1 has exited: its POST got no answer in time and its PUT
\* found no Node; the server has served the POST since and stores n1, and a
\* Pod is stored that the kubelet never listed
C30_Witness ==
    /\ kPc["n1"] = "exited"
    /\ resp.actor = Stopped
    /\ resp.op = "CreateNode"
    /\ resp.code = 201
    /\ "n1" \in DOMAIN nodes
    /\ DOMAIN pods # {}
    /\ kPods["n1"] = <<>>

\* the step just taken was the request op of the API client
ApiRequest(op) == resp'.actor = "client" /\ resp'.op = op

(***************************************************************************)
(* C31: a POST of a Pod or of a Node whose body has an empty name, and a   *)
(* PUT of a Pod whose body names another Pod or another namespace than the *)
(* URL, is answered 400 (invalid input) and changes neither the Pods nor   *)
(* the Nodes of the store.                                                 *)
(***************************************************************************)
C31_InvalidInputRejected ==
    /\ [][(ApiRequest("CreatePod") /\ resp'.body.name = "")
            => resp'.code = 400 /\ pods' = pods /\ nodes' = nodes]_vars
    /\ [][(ApiRequest("CreateNode") /\ resp'.body.name = "")
            => resp'.code = 400 /\ pods' = pods /\ nodes' = nodes]_vars
    /\ [][(/\ ApiRequest("UpdatePod")
           /\ \/ resp'.body.name # resp'.key[2]
              \/ resp'.body.namespace # resp'.key[1])
            => resp'.code = 400 /\ pods' = pods /\ nodes' = nodes]_vars

\* a PUT addressed to a stored Pod was refused: its body has the Pod's name
\* and another namespace, and the stored Pod is not the body
C31_Witness ==
    /\ resp.actor = "client"
    /\ resp.op = "UpdatePod"
    /\ resp.code = 400
    /\ RespKey \in DOMAIN pods
    /\ resp.body.name = resp.key[2]
    /\ resp.body.namespace # resp.key[1]
    /\ pods[RespKey].namespace = resp.key[1]
    /\ pods[RespKey].image # resp.body.image

(***************************************************************************)
(* C32: every stored Node has status Ready or NotReady.                    *)
(***************************************************************************)
C32_NodeStatusValid ==
    \A n \in DOMAIN nodes : nodes[n].status \in {NodeReady, NodeNotReady}

\* the keys whose Pod, and the names whose Node, the step just taken has
\* created, changed or removed
ChangedPods ==
    {k \in DOMAIN pods \cup DOMAIN pods' :
        \/ k \notin DOMAIN pods
        \/ k \notin DOMAIN pods'
        \/ pods'[k] # pods[k]}

ChangedNodes ==
    {n \in DOMAIN nodes \cup DOMAIN nodes' :
        \/ n \notin DOMAIN nodes
        \/ n \notin DOMAIN nodes'
        \/ nodes'[n] # nodes[n]}

PodWrites == {"CreatePod", "UpdatePod", "DeletePod"}
NodeWrites == {"CreateNode", "UpdateNode"}

(***************************************************************************)
(* C34: an accepted create, update or delete of a Pod, whoever sent it,    *)
(* changes no other Pod and no Node; an accepted create or update of a     *)
(* Node changes no other Node and no Pod; every other step, a refused      *)
(* request included, leaves all Pods and Nodes as they are.                *)
(***************************************************************************)
C34_OneRecordPerWrite ==
    [][IF resp'.op \in PodWrites /\ resp'.code \in {200, 201}
       THEN ChangedPods \subseteq {RespKey'} /\ nodes' = nodes
       ELSE IF resp'.op \in NodeWrites /\ resp'.code \in {200, 201}
       THEN ChangedNodes \subseteq {resp'.key[1]} /\ pods' = pods
       ELSE pods' = pods /\ nodes' = nodes]_vars

\* a Pod has just been deleted while another Pod is stored
C34_Witness ==
    /\ resp.op = "DeletePod"
    /\ resp.code = 200
    /\ RespKey \notin DOMAIN pods
    /\ DOMAIN pods # {}

(***************************************************************************)
(* C35: the nodeName of every PUT of the scheduler is the name of a stored *)
(* Node, and a stored Node stays stored: no step takes a name out of the   *)
(* Nodes, so the Node the scheduler wrote is there in every later state.   *)
(***************************************************************************)
C35_NoDanglingNodeName ==
    /\ [][(resp'.actor = "scheduler" /\ schedPc = "assign"
           /\ resp'.op \in {"UpdatePod", "UpdatePodFound"})
            => /\ SelectNode(readyNodes, nextNodeIndex).name \in DOMAIN nodes
               /\ \A q \in putReq' \ putReq :
                    q.body.nodeName = SelectNode(readyNodes, nextNodeIndex).name]_vars
    /\ [][(resp'.actor = "scheduler" /\ resp'.op = "UpdatePod" /\ resp'.code = 200)
            => /\ \A q \in putReq \ putReq' :
                    pods'[RespKey'].nodeName = q.body.nodeName
               /\ pods'[RespKey'].nodeName \in DOMAIN nodes']_vars
    /\ [][DOMAIN nodes \subseteq DOMAIN nodes']_vars
    /\ [](\A i \in 1..Len(readyNodes) : readyNodes[i].name \in DOMAIN nodes)

\* a Pod is Scheduled on n1, and n1, since set to NotReady by a client, is
\* still stored
C35_Witness ==
    /\ resp.actor = "client"
    /\ resp.op = "UpdateNode"
    /\ resp.code = 200
    /\ "n1" \in DOMAIN nodes
    /\ nodes["n1"].status = NodeNotReady
    /\ \E k \in DOMAIN pods :
         pods[k].phase = PodScheduled /\ pods[k].nodeName = "n1"

(***************************************************************************)
(* C36: the listings of the scheduler and of the kubelets hold Pods of the *)
(* namespace "default" only; no step of a loop changes a Pod of another    *)
(* namespace, and with a client that only creates, such a Pod stays        *)
(* Pending with an empty nodeName.                                         *)
(***************************************************************************)
C36_LoopsInDefaultOnly ==
    /\ [](/\ \A i \in 1..Len(pendingPods) : pendingPods[i].namespace = "default"
          /\ \A n \in Kubelets : \A i \in 1..Len(kPods[n]) :
                kPods[n][i].namespace = "default")
    /\ [][resp'.actor \in Loops
            => /\ resp'.op \in {"UpdatePod", "UpdatePodFound"}
                    => resp'.key[1] = "default"
               /\ \A k \in DOMAIN pods :
                    pods[k].namespace # "default"
                      => k \in DOMAIN pods' /\ pods'[k] = pods[k]]_vars
    /\ [](\A k \in DOMAIN pods :
            pods[k].namespace # "default"
              => pods[k].phase = PodPending /\ pods[k].nodeName = "")

\* the Pod p1 of the namespace default is Running on n1 by the kubelet's
\* PUT; the Pod p1 of the namespace other is stored
C36_Witness ==
    /\ resp.actor = "n1"
    /\ resp.op = "UpdatePod"
    /\ resp.code = 200
    /\ resp.key = <<"default", "p1">>
    /\ pods[RespKey].phase = PodRunning
    /\ podKey("other", "p1") \in DOMAIN pods
    /\ pods[podKey("other", "p1")].deletionTimestamp = nil

(***************************************************************************)
(* C37: an accepted DELETE of a Pod was sent for a stored Pod and removes  *)
(* it: a GET of the key then answers 404, the listing of its namespace     *)
(* does not hold the key, and a POST of that name in that namespace is     *)
(* accepted and stores a Pod that is Pending with an empty nodeName.  A    *)
(* DELETE of a key that is not stored is refused and changes nothing.      *)
(***************************************************************************)
C37_DeleteRemoves ==
    /\ [][(ApiRequest("DeletePod") /\ resp'.code = 200)
            => /\ RespKey' \in DOMAIN pods
               /\ getPodHandlerGin(pods', resp'.key[1], resp'.key[2]).code = 404
               /\ RespKey' \notin ListPods(pods', resp'.key[1])
               /\ \A body \in ApiPodBodies :
                    body.name = resp'.key[2]
                    => LET r == createPodHandlerGin(pods', resp'.key[1], body) IN
                       /\ r.code = 201
                       /\ r.pods[RespKey'].phase = PodPending
                       /\ r.pods[RespKey'].nodeName = ""]_vars
    /\ [][ApiRequest("DeletePod")
            => (resp'.code # 200 <=> RespKey' \notin DOMAIN pods)]_vars
    /\ [][(ApiRequest("DeletePod") /\ resp'.code # 200)
            => pods' = pods /\ nodes' = nodes]_vars
    /\ [][(ApiRequest("CreatePod") /\ resp'.code = 201)
            => /\ pods'[RespKey'].phase = PodPending
               /\ pods'[RespKey'].nodeName = ""]_vars

\* a Pod that was stored has been deleted
C37_Witness ==
    /\ resp.actor = "client"
    /\ resp.op = "DeletePod"
    /\ resp.code = 200
    /\ RespKey \notin DOMAIN pods

(***************************************************************************)
(* C38: an accepted PUT of a Pod stores the body: a GET of the key then    *)
(* returns a Pod equal to the body, in image, nodeName, phase and          *)
(* deletionTimestamp as in every other field, whatever was stored before.  *)
(***************************************************************************)
C38_UpdateReplaces ==
    [][(ApiRequest("UpdatePod") /\ resp'.code = 200)
         => LET got == getPodHandlerGin(pods', resp'.key[1], resp'.key[2]) IN
            /\ got.code = 200
            /\ got.pod.image = resp'.body.image
            /\ got.pod.nodeName = resp'.body.nodeName
            /\ got.pod.phase = resp'.body.phase
            /\ got.pod.deletionTimestamp = resp'.body.deletionTimestamp
            /\ got.pod = resp'.body]_vars

\* a PUT has replaced a created Pod by a body with another image, a
\* nodeName, the phase Running and a deletionTimestamp
C38_Witness ==
    /\ resp.actor = "client"
    /\ resp.op = "UpdatePod"
    /\ resp.code = 200
    /\ pods[RespKey] = resp.body
    /\ resp.body.image = "busybox"
    /\ resp.body.nodeName = "n1"
    /\ resp.body.phase = PodRunning
    /\ resp.body.deletionTimestamp = "t"


\* the operations of the store, as the steps that answer them name them
StoreOps == {"ListPods", "ListNodes", "UpdatePod", "UpdatePodFound", "CreateNode",
             "UpdateNode", "UpdateNodeFound", "CreatePod", "DeletePod"}

\* the step is the end of a call of the store made for a (the router's
\* answer to a PUT whose URL has no route is none)
StoreCall(a) ==
    /\ resp' # resp
    /\ resp'.actor = a
    /\ resp'.op \in StoreOps
    /\ resp'.op \in {"UpdatePod", "UpdatePodFound"}
         => ClientUpdatePodRoute([namespace |-> resp'.key[1],
                                  name |-> resp'.key[2]]).ok

\* the step a can take while it is inside a method of the store
Critical(a) ==
    IF a = "scheduler" THEN SchedulerCritical
    ELSE IF a = "client" THEN ClientCritical
    ELSE KubeletCritical(a)

\* a is inside a cycle of its loop
InCycle(a) ==
    IF a = "scheduler" THEN schedPc # "sleep" ELSE kPc[a] \in {"sync", "put"}

\* C33: the store has one lock, held by one writer or by readers only; every
\* operation of the store runs with the lock held by its caller and gives it
\* back when it returns, whether it succeeded or failed, and only the holder
\* of the write lock changes the store; whoever holds the lock can take its
\* next step without any step of another actor, so no reachable state is a
\* deadlock, a held lock is always released, and every cycle of the
\* scheduler and of a kubelet that has begun reaches its end (the
\* scheduler's as long as its cursor is below MaxCursor).
C33_LockNeverBlocks ==
    /\ [](mu.writer # "none" => mu.readers = {})
    /\ [][\A a \in LockActors :
            StoreCall(a) => Holds(a) /\ ~Holds(a)' /\ mu'.writer = "none"]_vars
    /\ [][pods' # pods \/ nodes' # nodes =>
            mu.writer = resp'.actor /\ mu' = [writer |-> "none", readers |-> {}]]_vars
    /\ [](\A a \in LockActors : Holds(a) => ENABLED Critical(a))
    /\ [](\/ ENABLED SchedulerLocked
          \/ nextNodeIndex = MaxCursor
          \/ \E a \in LockActors : Holds(a) /\ ENABLED Critical(a))
    /\ \A a \in LockActors : Holds(a) ~> ~Holds(a)
    /\ \A a \in LockActors \ {"client"} :
         InCycle(a) ~> (~InCycle(a) \/ nextNodeIndex = MaxCursor)

\* the scheduler's PUT found its Pod, the client's DELETE ran before the
\* handler's UpdatePod, UpdatePod returned its error, and the lock is free
\* again and the cycle at its end, beside a kubelet that has registered
C33_Witness ==
    /\ resp = Response("scheduler", "UpdatePod", <<"default", "p1">>, 500)
    /\ mu = [writer |-> "none", readers |-> {}]
    /\ schedPc = "sleep"
    /\ kPc["n1"] = "sleep"
    /\ podKey("default", "p1") \notin DOMAIN pods

=============================================================================
